---- MODULE Spec2Model ----
(***************************************************************************)
(* Request orchestration of the Parsoid web API (src/api/routes.js): the   *)
(* soft request timeout and the CPU-timeout heartbeat, the wt2html and     *)
(* html2wt drivers, reuse of expansions, and the round-trip routes.        *)
(* One request is followed from the moment its handler is called until     *)
(* its promise chain has settled.  A handler body, and every callback of   *)
(* a promise chain, runs to completion: each is one action.                *)
(***************************************************************************)
EXTENDS Integers, Sequences, FiniteSets, TLC

\* ------------------------------------------------------------- bounds
\* Revision ids the content source may answer with are "1".."MaxRev".
MaxRev == 1
\* Expansion keys found in a prior document are 1..MaxKey.
MaxKey == 1

\* ------------------------------------------------------------- values
RevIds == { ToString(i) : i \in 1..MaxRev }
\* res.local('oldid'): null (written ""), the string '0', or a revision id.
OldIds == { "", "0" } \cup RevIds
Keys == 1..MaxKey

\* JavaScript truthiness of a string-or-null value.
Truthy(s) == s # ""

\* Values carried by promises: results and errors share one shape.
Val(c, m, s) == [cls |-> c, msg |-> m, stack |-> s]
Undefined == Val("value", "undefined", FALSE)
Doc == Val("value", "doc", FALSE)
Err(m) == Val("Error", m, TRUE)
TimeoutError == Val("TimeoutError", "operation timed out", TRUE)

Pending == [st |-> "pending", v |-> Undefined]
Fulfilled(v) == [st |-> "fulfilled", v |-> v]
Rejected(e) == [st |-> "rejected", v |-> e]
Settled(p) == p.st # "pending"

\* An expansion set: for each kind, the keys that have a reusable fragment.
ExpSets == [transclusions : SUBSET Keys, files : SUBSET Keys]
NoExp == [given |-> FALSE, transclusions |-> {}, files |-> {}]
Exp(e) == [given |-> TRUE, transclusions |-> e.transclusions, files |-> e.files]

\* Timeouts of the configuration defaults, in ms.
REQ_TIMEOUT == 4 * 60 * 1000
CPU_TIMEOUT == 5 * 60 * 1000

VARIABLES
  proc,       \* the process: cluster.isMaster, process.version, parsoidConfig.useSelser
  req,        \* the request as the middlewares left it in res.local
  pc,         \* what the chain in front of .timeout() is waiting for
  pre,        \* the promise in front of .timeout() (or the whole chain)
  timer,      \* the soft-deadline timer: "none", "armed", "fired"
  tp,         \* the promise .timeout(REQ_TIMEOUT) returned
  post,       \* the promise handed to cpuTimeout (after the success continuation)
  cpu,        \* the promise cpuTimeout returned
  fin,        \* the promise the handler returned (after .catch)
  chan,       \* messages sent to the cluster master with process.send
  log,        \* errors given to env.log("fatal/request", ...)
  resp,       \* responses sent
  hdrs,       \* response headers set
  events,     \* the order in which the steps of the request began
  page,       \* env.page: src, revid, parentid; and env.discardDataParsoid
  rin,        \* what the reuse resolver read from the request and the config
  extracted,  \* the expansions DU.extractExpansions returned
  parseCalls, \* calls of env.pipelineFactory.parse
  cacheCalls, \* calls of ParsoidCacheRequest.promise
  serCalls    \* calls of DU.serializeDOM

vars == << proc, req, pc, pre, timer, tp, post, cpu, fin, chan, log, resp, hdrs,
           events, page, rin, extracted, parseCalls, cacheCalls, serCalls >>

\* The rewrite of substTopLevelTemplates, followed on its own.
VARIABLES
  wt,         \* the closure variable wt of wt2html, as substTopLevelTemplates sees it
  tokens,     \* what tokenizer.tokenize(wt, null, null, true) returned
  wt0,        \* the wikitext as the request gave it
  spc         \* "idle", or "rewritten" once the loop has run

substVars == << wt, tokens, wt0, spc >>

\* The v2 middleware and routes, followed on their own.
VARIABLES
  v2req,      \* the request as express hands it to v2Middle: params, query, body
  local,      \* res.local: what the middleware has set
  sent,       \* error responses sent by errOut
  stage,      \* "arrived", "next" (next() was called), "rejected", "handled"
  called      \* the conversion handler the route called, "" for none

midVars == << v2req, local, sent, stage, called >>

\* The ParsoidConfig object, followed on its own.
VARIABLES
  config,         \* the ParsoidConfig object
  config0,        \* the object as the constructor returned it
  localSettings,  \* what localSettings.setup assigns
  options,        \* the options argument of the constructor
  cstage          \* "new", or "constructed" once the constructor has returned

confVars == << config, config0, localSettings, options, cstage >>

\* Several requests in flight in one worker, followed together.
VARIABLES
  flight          \* for each request in flight: res.local, its closure's variables, its env.page

pairVars == << flight >>

\* A request followed in time, under the supervisor of the worker pool.
VARIABLES
  clock,          \* milliseconds since the handler was called
  blocked,        \* a callback of the request computes without returning to the event loop
  killed          \* the supervisor has terminated the worker

superVars == << clock, blocked, killed >>

\* A round-trip route, followed on the document.
VARIABLES
  rtRoute,        \* the route
  parsed,         \* the document parse resolved with
  serialized,     \* the call of DU.serializeDOM: the document and useSelser
  out,            \* the wikitext DU.serializeDOM resolved with
  report,         \* what roundTripDiff resolves with
  rtStage

rtVars == << rtRoute, parsed, serialized, out, report, rtStage >>

\* What the actions of one part leave alone: the variables of the other parts.
aside == << substVars, midVars, confVars, pairVars, superVars, rtVars >>
substAside == << vars, midVars, confVars, pairVars, superVars, rtVars >>
midAside == << vars, substVars, confVars, pairVars, superVars, rtVars >>
confAside == << vars, substVars, midVars, pairVars, superVars, rtVars >>
superAside == << vars, substVars, midVars, confVars, pairVars, rtVars >>
rtAside == << vars, substVars, midVars, confVars, pairVars, superVars >>
\* The requests in flight share the process and its channel to the master.
pairAside == << req, pc, pre, timer, tp, post, cpu, fin, log, resp, hdrs, events, page,
               rin, extracted, parseCalls, cacheCalls, serCalls,
               substVars, midVars, confVars, superVars, rtVars >>

\* ------------------------------------------------------------ requests
Handlers == { "wt2html", "html2wt", "roundtripTesting", "roundtripTestingNL",
              "roundtripSelser", "postRtForm" }
RtRoutes == { "roundtripTesting", "roundtripTestingNL", "roundtripSelser" }

\* process.version as <<major, minor>>: v0.8.x, v0.10.x.
Versions == { <<0, 8>>, <<0, 10>> }

wt2htmlFormats == { "pagebundle", "html" }
supportedFormats == { "pagebundle", "html", "wt" }

\* What interParams (v1) or v2Middle (v2) leave in res.local for the handlers,
\* for the requests the routes pass on to a handler.
Requests ==
  { r \in [ handler : Handlers, api : {"v1", "v2"}, format : {""} \cup supportedFormats,
            wtGiven : BOOLEAN, oldid : OldIds, subst : BOOLEAN, cookie : BOOLEAN,
            timeoutId : {"t1"}, iwp : {"enwiki"}, pageName : {"Main_Page"} ] :
      /\ (r.api = "v1") = (r.format = "")
      /\ r.handler = "wt2html" /\ r.api = "v2" => r.format \in wt2htmlFormats
      /\ r.handler = "html2wt" /\ r.api = "v2" => r.format = "wt"
      /\ r.handler \in RtRoutes \cup {"postRtForm"} => r.api = "v1"
      /\ r.handler # "wt2html" => ~r.wtGiven /\ ~r.subst
      \* req.headers.cookie is read by wt2html only
      /\ r.handler # "wt2html" => ~r.cookie
      /\ r.handler = "postRtForm" => r.oldid = ""
      \* v2Middle: substitution is only supported for the HTML format
      /\ r.subst /\ r.api = "v2" => r.format = "html" }

\* The branch wt2html takes (lines 484-506).
Branch(r) ==
  IF r.wtGiven THEN "inline" ELSE IF Truthy(r.oldid) THEN "revision" ELSE "redirect"

\* ---------------------------------------------------- timeout helpers
\* !/^v0\.[0-8]\./.test(process.version)
sufficientNodeVersion == ~(proc.version[1] = 0 /\ proc.version[2] \in 0..8)

\* The two messages of the heartbeat protocol.
StartMsg(r) ==
  [ type |-> "timeout", done |-> FALSE, timeout |-> CPU_TIMEOUT, timeoutId |-> r.timeoutId,
    location |-> << r.iwp, r.pageName,
                    IF Truthy(r.oldid) THEN "?oldid=" \o r.oldid ELSE "" >> ]

\* Mutant of makeDone: the id is read when the message is sent, from the last
\* message on the channel, and not kept in the closure.
makeDone_LatestId(timeoutId) ==
  [ type |-> "timeout", done |-> TRUE, timeout |-> 0,
    timeoutId |-> IF chan = << >> THEN timeoutId ELSE chan[Len(chan)].timeoutId,
    location |-> << "", "", "" >> ]

makeDone(timeoutId) ==
  [ type |-> "timeout", done |-> TRUE, timeout |-> 0, timeoutId |-> timeoutId,
    location |-> << "", "", "" >> ]

\* Mutant of HeartbeatOff: the runtime version is not looked at.
HeartbeatOff_MasterOnly == proc.isMaster

\* Whether cpuTimeout talks to the cluster master (line 75).
HeartbeatOff == proc.isMaster \/ ~sufficientNodeVersion

\* cpuTimeout, its synchronous part: the start message.
cpuTimeoutStart(ch, r) ==
  IF HeartbeatOff THEN ch ELSE Append(ch, StartMsg(r))

\* Mutant of cpuTimeoutDone: done is registered for fulfilment only, p.then(done).
cpuTimeoutDone_OnSuccessOnly(ch, r) ==
  IF (proc.isMaster \/ ~sufficientNodeVersion) \/ post.st = "rejected"
    THEN ch
    ELSE Append(ch, makeDone(r.timeoutId))

\* cpuTimeout, the reactions on p: done, then resolve/reject.
cpuTimeoutDone(ch, r) ==
  IF HeartbeatOff THEN ch ELSE Append(ch, makeDone(r.timeoutId))

\* Mutant of timeoutResp: the error is logged as it came.
timeoutResp_Raw(err) == err

\* The error timeoutResp gives to env.log("fatal/request", err).
timeoutResp(err) ==
  IF err.cls = "TimeoutError" THEN Val("Error", "Request timed out.", FALSE) ELSE err

\* ------------------------------------- substTopLevelTemplates, the rewrite
\* The wikitext is a sequence of characters; offsets count from 0 as in the
\* source.  Wikitexts of at most MaxLen characters are considered.
MaxLen == 5
Chars == { "{", "}", "x" }
Wikitexts == UNION { [1..n -> Chars] : n \in 0..MaxLen }

\* Offsets at which an opening "{{" stands.
OpenAt(w) == { o \in 0..(Len(w) - 2) : w[o + 1] = "{" /\ w[o + 2] = "{" }

RECURSIVE SortedSeq(_)
SortedSeq(S) ==
  IF S = {} THEN << >>
  ELSE LET m == CHOOSE x \in S : \A y \in S : x <= y
       IN << m >> \o SortedSeq(S \ { m })

\* The token streams the tokenizer may return for w: tokens in source order;
\* a template token starts at an opening "{{" and its opening delimiter does not
\* overlap another one's; other tokens stand anywhere else.
Tokenizations(w) ==
  { [ i \in 1..Cardinality(T \cup O) |->
        LET o == SortedSeq(T \cup O)[i]
        IN [ name |-> IF o \in T THEN "template" ELSE "text", tsr0 |-> o ] ] :
      T \in { X \in SUBSET OpenAt(w) : \A a, b \in X : a # b => (a - b >= 2 \/ b - a >= 2) },
      O \in SUBSET (0..(Len(w) - 1)) }

\* String.prototype.substring on a sequence of characters: the arguments are
\* clamped to the length and swapped when out of order.
Clamp(n, len) == IF n < 0 THEN 0 ELSE IF n > len THEN len ELSE n
substring(s, a, b) ==
  LET x == Clamp(a, Len(s))
      y == Clamp(b, Len(s))
  IN SubSeq(s, (IF x < y THEN x ELSE y) + 1, IF x < y THEN y ELSE x)

\* Mutant of substOne: the opening delimiter of the original is kept as well.
substOne_KeepsDelimiter(w, tsr0, tsrIncr) ==
  substring(w, 0, tsr0 + tsrIncr) \o << "{", "{", "s", "u", "b", "s", "t", ":" >>
    \o substring(w, tsr0 + tsrIncr, Len(w))

\* Line 465: wt.substring(0, tsr[0] + tsrIncr) + '{{subst:' + wt.substring(tsr[0] + tsrIncr + 2)
substOne(w, tsr0, tsrIncr) ==
  substring(w, 0, tsr0 + tsrIncr) \o << "{", "{", "s", "u", "b", "s", "t", ":" >>
    \o substring(w, tsr0 + tsrIncr + 2, Len(w))

\* The loop of lines 462-469, from token i on.
RECURSIVE substLoop(_, _, _, _)
substLoop(w, toks, i, tsrIncr) ==
  IF i > Len(toks) THEN w
  ELSE IF toks[i].name = "template"
    THEN substLoop(substOne(w, toks[i].tsr0, tsrIncr), toks, i + 1, tsrIncr + 6)
    ELSE substLoop(w, toks, i + 1, tsrIncr)

SubstIdle == wt = << >> /\ tokens = << >> /\ wt0 = << >> /\ spc = "idle"

\* --------------------------------------------- v2Middle and the v2 routes
\* parsoidConfig.reverseMwApiMap: the configured domains and their prefixes.
DomainPrefix == [ d \in { "en.wikipedia.org" } |-> "enwiki" ]

\* A v2 request as it arrives: the route parameters (domain, format, title,
\* revision), the method, the subst flag of query or body, and the JSON body.
\* A field that is absent is "" or FALSE.  The fields wikitext and html of the
\* JSON body are: absent, null, a string, the empty string, an object with a
\* body, an object without.
BodyValues == { "undefined", "null", "string", "empty", "object", "bare" }

V2Requests ==
  [ method : { "GET", "POST" },
    domain : { "en.wikipedia.org", "nowhere.example.org" },
    format : { "pagebundle", "html", "wt", "pdf" },
    title : { "", "Main_Page" }, revision : { "", "1" },
    subst : BOOLEAN,
    bodyFormat : { "", "wt", "pdf" },
    origRevid : { "", "2" }, origTitle : { "", "Other_Page" },
    wikitext : BodyValues, origWikitext : BOOLEAN, html : BodyValues ]

\* typeof v === "string"
isString(v) == v \in { "string", "empty" }

\* (v2.wikitext && typeof v2.wikitext !== "string") ? v2.wikitext.body : v2.wikitext
\* (lines 861-862)
wikitextOf(v) ==
  CASE v = "object" -> "string"
    [] v = "bare" -> "undefined"
    [] OTHER -> v

\* (typeof v2.html === "string") ? v2.html : (v2.html.body || "") (lines 878-879);
\* null has no properties to read.
htmlOf(v) ==
  CASE isString(v) -> v
    [] v = "null" -> "TypeError"
    [] v = "object" -> "string"
    [] OTHER -> "empty"

NoLocal ==
  [ iwp |-> "", pageName |-> "", oldid |-> "", subst |-> FALSE, v2 |-> FALSE, format |-> "" ]

\* Object.assign({ format: req.params.format }, req.body).format (line 812)
v2Format(r) == IF r.bodyFormat # "" THEN r.bodyFormat ELSE r.format

\* Mutant of formatOk: a GET may name any supported format.
formatOk_AnyMethod(method, format) == format \in supportedFormats

\* The negation of the condition of lines 814-815.
formatOk(method, format) ==
  ~(format \notin supportedFormats \/ (method = "GET" /\ format \notin wt2htmlFormats))

\* Mutant of substOk: substitution is accepted for both rendering formats.
substOk_AnyRendering(subst, format) == ~(subst /\ format \notin wt2htmlFormats)

\* The negation of the condition of line 822.
substOk(subst, format) == ~(subst /\ format # "html")

\* errOut( err, code ): apiUtils.sendResponse( res, {}, err, code || 404 )
errOut(err, code) == [ msg |-> err, code |-> IF code = 0 THEN 404 ELSE code ]

MiddleIdle ==
  /\ v2req = [ method |-> "GET", domain |-> "en.wikipedia.org", format |-> "html",
               title |-> "", revision |-> "", subst |-> FALSE, bodyFormat |-> "",
               origRevid |-> "", origTitle |-> "", wikitext |-> "undefined",
               origWikitext |-> FALSE, html |-> "undefined" ]
  /\ local = NoLocal /\ sent = << >> /\ stage = "arrived" /\ called = ""

\* --------------------------------------------------------- ParsoidConfig
\* JavaScript values of the settings: numbers, null, undefined, a string;
\* Unset stands for a property that is not assigned at all.
Num(n) == [ type |-> "number", n |-> n ]
JsNull == [ type |-> "null", n |-> 0 ]
JsUndefined == [ type |-> "undefined", n |-> 0 ]
JsString == [ type |-> "string", n |-> 0 ]
Unset == [ type |-> "unset", n |-> 0 ]
typeof(v) == IF v.type = "null" THEN "object" ELSE v.type

Minutes(m) == m * 60 * 1000

\* CONFIG_DEFAULTS (lines 17-77).  An object is a record of its properties, with
\* its type beside them.
DefaultMwApi ==
  [ type |-> "object", preprocessor |-> Num(30 * 1000), extParse |-> Num(30 * 1000),
    srcFetch |-> Num(40 * 1000), imgInfo |-> Num(40 * 1000), configInfo |-> Num(40 * 1000) ]
DefaultTimeouts ==
  [ type |-> "object", request |-> Num(REQ_TIMEOUT), cpu |-> Num(CPU_TIMEOUT),
    mwApi |-> DefaultMwApi,
    parsoidCacheReq |-> Num(10 * 1000), parsoidCacheReparse |-> Num(50 * 1000) ]
DefaultRetries ==
  [ type |-> "object",
    mwApi |-> [ type |-> "object", all |-> Num(1), configInfo |-> Num(0) ],
    parsoidCacheReq |-> Num(0) ]
CONFIG_DEFAULTS == [ type |-> "object", timeouts |-> DefaultTimeouts, retries |-> DefaultRetries ]

\* Object.keys
ObjectKeys(o) == DOMAIN o \ { "type" }

\* A value of type t with nothing in it, in the shape of dflt: null, undefined,
\* a string, an empty object.
RECURSIVE Hollow(_, _)
Hollow(dflt, t) ==
  IF "n" \in DOMAIN dflt THEN [ type |-> t, n |-> 0 ]
  ELSE [ key \in DOMAIN dflt |-> IF key = "type" THEN t ELSE Hollow(dflt[key], "undefined") ]

\* A timeouts value that is no object: null, undefined.
NoObject(t) == Hollow(DefaultTimeouts, t)

\* Strings that the code matches against a regular expression are kept as the
\* sequences of their characters.
enwiki == << "e", "n", "w", "i", "k", "i" >>
dewiki == << "d", "e", "w", "i", "k", "i" >>
Prefixes == { enwiki, dewiki }
Hosts == { "en.wikipedia.org", "de.wikipedia.org" }
EmptyMap == [ k \in {} |-> "" ]
MapSet(m, k, v) == [ x \in DOMAIN m \cup { k } |-> IF x = k THEN v ELSE m[x] ]
MapDelete(m, k) == [ x \in DOMAIN m \ { k } |-> m[x] ]

\* What localSettings.setup does to the object under construction: it may
\* assign useSelser, allowCORS, loggerBackend and timeouts.request.
Setups ==
  [ useSelser : { "unset", "on", "off" }, allowCORS : { "unset", "example.org" },
    loggerBackend : BOOLEAN, request : { Unset, JsNull, Num(Minutes(10)) } ]

\* The options argument: absent, or an object that may hold useSelser and timeouts.
MwApiValues ==
  { Hollow(DefaultMwApi, "undefined"), Hollow(DefaultMwApi, "null"),
    Hollow(DefaultMwApi, "string"),
    [ Hollow(DefaultMwApi, "object") EXCEPT !.srcFetch = Num(1000) ],
    [ DefaultMwApi EXCEPT !.imgInfo = JsString, !.configInfo = JsNull ] }
RetriesValues ==
  { Hollow(DefaultRetries, "unset"), Hollow(DefaultRetries, "null"),
    [ Hollow(DefaultRetries, "object") EXCEPT
        !.mwApi = [ Hollow(DefaultRetries.mwApi, "object") EXCEPT !.all = Num(3) ] ],
    [ DefaultRetries EXCEPT !.parsoidCacheReq = JsString, !.mwApi.configInfo = JsNull ] }
Options ==
  { o \in [ given : BOOLEAN, useSelser : { "unset", "on", "off" },
            timeouts : { NoObject("unset"), NoObject("null") }
                        \cup { [ NoObject("object") EXCEPT
                                   !.request = r, !.cpu = c, !.mwApi = m,
                                   !.parsoidCacheReq = q ] :
                                 r \in { JsUndefined, Num(Minutes(10)) },
                                 c \in { JsUndefined, JsString, Num(Minutes(1)) },
                                 m \in MwApiValues,
                                 q \in { JsUndefined, Num(5 * 1000) } },
            retries : RetriesValues ] :
      ~o.given => /\ o.useSelser = "unset" /\ o.timeouts = NoObject("unset")
                  /\ o.retries = Hollow(DefaultRetries, "unset") }

AddOwn(own, name) ==
  IF \E i \in DOMAIN own : own[i] = name THEN own ELSE Append(own, name)

\* The object before the constructor has run: the prototype's values only.
BlankConfig ==
  [ mwApiMap |-> EmptyMap, reverseMwApiMap |-> EmptyMap, mwApiRegexp |-> << >>,
    timeouts |-> NoObject("undefined"), retries |-> Hollow(DefaultRetries, "undefined"),
    useSelser |-> "off", allowCORS |-> "unset",
    own |-> << >>, deepFrozen |-> {}, frozen |-> FALSE ]

\* The regular expression '(^|\\|)' + prefix + '(\\||$)' of lines 383 and 404
\* matches s from position i on, its first group taking lead characters: the
\* prefix is part of the pattern as it stands, so that a '.' in it stands for
\* any character.
regexpMatch(s, prefix, i, lead) ==
  LET j == i + lead
      e == j + Len(prefix)
  IN /\ IF lead = 0 THEN i = 1 ELSE i <= Len(s) /\ s[i] = "|"
     /\ e - 1 <= Len(s)
     /\ \A k \in 1..Len(prefix) : prefix[k] = "." \/ prefix[k] = s[j + k - 1]
     /\ (e = Len(s) + 1 \/ s[e] = "|")

\* this.mwApiRegexp.match('(^|\\|)' + prefix + '(\\||$)') !== null
regexpHas(re, prefix) ==
  \E i \in 1..(Len(re) + 1), lead \in { 0, 1 } : regexpMatch(re, prefix, i, lead)

\* ParsoidConfig.prototype.setMwApi (lines 372-386), with apiConf.uri given by
\* its host.  Assigning to a property of a frozen object has no effect on it.
setMwApiOn(c, prefix, host) ==
  LET rev1 == IF prefix \in DOMAIN c.mwApiMap
                THEN MapDelete(c.reverseMwApiMap, c.mwApiMap[prefix])
                ELSE c.reverseMwApiMap
      re == IF regexpHas(c.mwApiRegexp, prefix) \/ c.frozen
              THEN c.mwApiRegexp
              ELSE c.mwApiRegexp \o (IF c.mwApiRegexp # << >> THEN << "|" >> ELSE << >>)
                     \o prefix
  IN [ c EXCEPT !.mwApiMap = MapSet(c.mwApiMap, prefix, host),
                !.reverseMwApiMap = MapSet(rev1, host, prefix),
                !.mwApiRegexp = re ]

\* The replace of lines 403-407: the leftmost match goes, and a '|' stands in
\* its place when the matched text is '|' + prefix + '|'.
regexpRemove(re, prefix) ==
  IF ~regexpHas(re, prefix) THEN re
  ELSE LET starts == { j \in 1..(Len(re) + 1) :
                         \E lead \in { 0, 1 } : regexpMatch(re, prefix, j, lead) }
           i == CHOOSE j \in starts : \A k \in starts : j <= k
           lead == IF regexpMatch(re, prefix, i, 0) THEN 0 ELSE 1
           e == i + lead + Len(prefix)
           last == IF e <= Len(re) THEN e ELSE e - 1
           matched == SubSeq(re, i, last)
       IN SubSeq(re, 1, i - 1)
            \o (IF matched = << "|" >> \o prefix \o << "|" >> THEN << "|" >> ELSE << >>)
            \o SubSeq(re, last + 1, Len(re))

\* ParsoidConfig.prototype.removeMwApi (lines 396-408).
removeMwApiOn(c, prefix) ==
  IF prefix \notin DOMAIN c.mwApiMap THEN c
  ELSE [ c EXCEPT !.reverseMwApiMap = MapDelete(c.reverseMwApiMap, c.mwApiMap[prefix]),
                  !.mwApiMap = MapDelete(c.mwApiMap, prefix),
                  !.mwApiRegexp = IF c.frozen THEN @ ELSE regexpRemove(@, prefix) ]

\* initMwApiMap (lines 318-351), for a site matrix that lists enwiki.
initMwApiMap(c) ==
  IF enwiki \in DOMAIN c.mwApiMap THEN c ELSE setMwApiOn(c, enwiki, "en.wikipedia.org")

\* Mutant of needsReset: null is not looked for.
needsReset_NullPasses(v, dflt) ==
  v.type = "undefined" \/ typeof(v) # typeof(dflt)

\* The test of line 422 on one value.
needsReset(v, dflt) ==
  v.type = "null" \/ v.type = "undefined" \/ typeof(v) # typeof(dflt)

\* sanitizeConfig (lines 415-431).
RECURSIVE sanitizeConfig(_, _)
sanitizeConfig(obj, defaults) ==
  [ key \in DOMAIN obj |->
      IF key \notin ObjectKeys(defaults) THEN obj[key]
      ELSE IF needsReset(obj[key], defaults[key]) THEN defaults[key]
      ELSE IF typeof(defaults[key]) = "object" THEN sanitizeConfig(obj[key], defaults[key])
      ELSE obj[key] ]

\* _sanitizeIt (lines 411-413)
sanitizeIt(c) == sanitizeConfig(c, CONFIG_DEFAULTS)

\* localSettings.setup(this) (lines 98-100).
setupOn(c, s) ==
  LET o1 == IF s.useSelser # "unset" THEN AddOwn(c.own, "useSelser") ELSE c.own
      o2 == IF s.allowCORS # "unset" THEN AddOwn(o1, "allowCORS") ELSE o1
      o3 == IF s.loggerBackend THEN AddOwn(o2, "loggerBackend") ELSE o2
  IN [ c EXCEPT !.useSelser = IF s.useSelser # "unset" THEN s.useSelser ELSE @,
                !.allowCORS = IF s.allowCORS # "unset" THEN s.allowCORS ELSE @,
                !.timeouts.request = IF s.request # Unset THEN s.request ELSE @,
                !.own = o3 ]

\* Object.assign(this, options) (lines 104-106).
assignOptions(c, o) ==
  [ c EXCEPT !.useSelser = IF o.useSelser # "unset" THEN o.useSelser ELSE @,
             !.timeouts = IF o.timeouts.type # "unset" THEN o.timeouts ELSE @,
             !.retries = IF o.retries.type # "unset" THEN o.retries ELSE @,
             !.own = IF o.useSelser # "unset" THEN AddOwn(@, "useSelser") ELSE @ ]

ignoreFields == { "performanceTimer", "loggerBackend", "nativeExtensions" }
\* Enumerable properties of the prototype, as for-in reaches them after the own ones.
ProtoProps == << "debug", "useSelser", "defaultWiki", "setMwApi" >>

\* The loop of lines 136-143 from property i on: it returns from the
\* constructor at the first property that is ignored or is not an own one.
RECURSIVE freezeLoop(_, _, _, _)
freezeLoop(props, own, i, deep) ==
  IF i > Len(props) THEN [ deep |-> deep, completed |-> TRUE ]
  ELSE IF props[i] \in ignoreFields \/ ~(\E k \in DOMAIN own : own[k] = props[i])
    THEN [ deep |-> deep, completed |-> FALSE ]
    ELSE freezeLoop(props, own, i + 1, deep \cup { props[i] })

\* function ParsoidConfig(localSettings, options) (lines 91-146).
construct(s, o) ==
  LET c0 == [ BlankConfig EXCEPT
                !.timeouts = DefaultTimeouts, !.retries = DefaultRetries,
                !.own = << "mwApiMap", "reverseMwApiMap", "mwApiRegexp", "timeouts", "retries" >> ]
      c1 == setupOn(c0, s)
      c2 == IF o.given THEN assignOptions(c1, o) ELSE c1
      c3 == initMwApiMap(c2)
      c4 == [ c3 EXCEPT !.own = AddOwn(AddOwn(@, "nativeExtensions"), "allowCORS"),
                        !.allowCORS = "*" ]
      c5 == sanitizeIt(c4)
      props == c5.own \o SelectSeq(ProtoProps,
                           LAMBDA p : ~(\E k \in DOMAIN c5.own : c5.own[k] = p))
      fz == freezeLoop(props, c5.own, 1, {})
  IN [ c5 EXCEPT !.deepFrozen = fz.deep, !.frozen = fz.completed ]

ConfigIdle ==
  /\ config = BlankConfig /\ config0 = BlankConfig /\ cstage = "new"
  /\ localSettings = [ useSelser |-> "unset", allowCORS |-> "unset",
                       loggerBackend |-> FALSE, request |-> Unset ]
  /\ options = [ given |-> FALSE, useSelser |-> "unset", timeouts |-> NoObject("unset"),
                 retries |-> Hollow(DefaultRetries, "unset") ]

\* ---------------------------------------------------------------- Init
NoRin ==
  [ path |-> "unread", payload |-> "none", updT |-> FALSE, updF |-> FALSE,
    cacheURI |-> FALSE, marker |-> FALSE, hdr |-> "none", cacheID |-> "",
    hmode |-> "", parentid |-> "", mode |-> "", cacheHit |-> "none" ]

\* No request is followed together with another.
PairIdle == flight = << >>

\* A document: the nodes of its head and the characters and nodes of its body.
\* passes counts the times it went through HTML serialization and parsing.
NoDoc == [ head |-> << >>, body |-> << >>, passes |-> 0 ]
NoCall == [ doc |-> NoDoc, useSelser |-> FALSE, made |-> FALSE ]
NoReport == [ made |-> FALSE ]

\* No round-trip route is followed on the document.
RtIdle ==
  /\ rtRoute = "" /\ parsed = NoDoc /\ serialized = NoCall /\ out = << >>
  /\ report = NoReport /\ rtStage = "idle"

\* The clock has not run.
SuperIdle == clock = 0 /\ blocked = FALSE /\ killed = FALSE

Init ==
  /\ proc \in [ isMaster : BOOLEAN, version : Versions, useSelser : BOOLEAN ]
  /\ req \in Requests
  \* parsoidConfig.useSelser is read by html2wt only
  /\ proc.useSelser => req.handler = "html2wt"
  /\ pc = "new"
  /\ pre = Pending /\ tp = Pending /\ post = Pending /\ cpu = Pending /\ fin = Pending
  /\ timer = "none"
  /\ chan = << >> /\ log = << >> /\ resp = << >> /\ events = << >>
  /\ hdrs = [ cacheControl |-> "", revisionId |-> "", cookie |-> FALSE ]
  /\ page = [ src |-> "", wt |-> IF req.wtGiven THEN "wt" ELSE "", revid |-> "",
              discardDataParsoid |-> FALSE ]
  /\ rin = NoRin
  /\ extracted = NoExp
  /\ parseCalls = << >> /\ cacheCalls = << >> /\ serCalls = << >>
  /\ SubstIdle /\ MiddleIdle /\ ConfigIdle /\ PairIdle /\ SuperIdle /\ RtIdle

\* ------------------------------------------------- synchronous handlers
NoCache == "private,no-cache,s-maxage=0"
LongLived == "s-maxage=2592000"

\* Mutant of cacheControl: a session cookie is not looked at.
cacheControl_IgnoresCookie(cookie, v2) == IF v2 THEN NoCache ELSE LongLived

\* The Cache-Control header parsePageWithOldid sets (lines 401-409).
cacheControl(cookie, v2) == IF cookie \/ v2 THEN NoCache ELSE LongLived

\* Events appended when cpuTimeout has sent its start message.
StartEvent(ch0, ch1) == IF Len(ch1) > Len(ch0) THEN << "start" >> ELSE << >>

\* wt2html, up to its return (lines 303-328, 483-509): the fetch is begun, the
\* wikitext is tokenized for subst, the timer is armed, cpuTimeout is called.
wt2html ==
  /\ pc = "new" /\ req.handler = "wt2html"
  /\ LET br == Branch(req)
         needFetch == Truthy(req.oldid) \/ ~req.wtGiven
         tok == br = "inline" /\ req.subst
         ev == (IF needFetch THEN << "fetch" >> ELSE << >>)
                 \o (IF tok THEN << "tokenize" >> ELSE << >>)
     IN \E thrown \in BOOLEAN :
          /\ thrown => tok
          /\ IF thrown
               THEN /\ pc' = "thrown"
                    /\ events' = events \o ev
                    /\ UNCHANGED << timer, chan, page >>
               ELSE /\ pc' = IF needFetch THEN "fetch" ELSE "tick"
                    /\ page' = IF tok THEN [page EXCEPT !.wt = "wt+subst"] ELSE page
                    /\ timer' = IF br = "redirect" THEN "none" ELSE "armed"
                    /\ chan' = cpuTimeoutStart(chan, req)
                    /\ events' = events \o ev
                         \o (IF br = "redirect" THEN << >> ELSE << "timer" >>)
                         \o StartEvent(chan, chan')
  /\ UNCHANGED aside
  /\ UNCHANGED << proc, req, pre, tp, post, cpu, fin, log, resp, hdrs, rin, extracted,
                  parseCalls, cacheCalls, serCalls >>

\* Mutant of hasOldId: the id '0' counts as a revision.
hasOldId_ZeroCounts(oldid) == Truthy(oldid)

\* So, no oldid => no selser (lines 273-274).
hasOldId(oldid) == Truthy(oldid) /\ oldid # "0"

\* html2wt, up to its return (lines 212-301): the html is parsed, the
\* serializer is started, the timer is armed, cpuTimeout is called.
html2wt ==
  /\ pc = "new" /\ req.handler = "html2wt"
  /\ \E thrown \in BOOLEAN :
       /\ IF thrown
            THEN /\ pc' = "thrown"
                 /\ events' = events \o << "domparse" >>
                 /\ UNCHANGED << timer, chan, serCalls >>
            ELSE /\ pc' = "serialize"
                 /\ serCalls' = Append(serCalls,
                      [ useSelser |-> hasOldId(req.oldid) /\ proc.useSelser, prep |-> "none" ])
                 /\ timer' = "armed"
                 /\ chan' = cpuTimeoutStart(chan, req)
                 /\ events' = events \o << "domparse", "serialize", "timer" >>
                                \o StartEvent(chan, chan')
  /\ UNCHANGED aside
  /\ UNCHANGED << proc, req, pre, tp, post, cpu, fin, log, resp, hdrs, page, rin,
                  extracted, parseCalls, cacheCalls >>

\* The three round-trip routes, up to their return (lines 651-740).
roundtrip ==
  /\ pc = "new" /\ req.handler \in RtRoutes
  /\ pc' = "fetch"
  /\ timer' = "armed"
  /\ chan' = cpuTimeoutStart(chan, req)
  /\ events' = events \o << "fetch", "timer" >> \o StartEvent(chan, chan')
  /\ UNCHANGED aside
  /\ UNCHANGED << proc, req, pre, tp, post, cpu, fin, log, resp, hdrs, page, rin,
                  extracted, parseCalls, cacheCalls, serCalls >>

\* postRtForm, up to its return (lines 753-770): no timer, no cpuTimeout.
postRtForm ==
  /\ pc = "new" /\ req.handler = "postRtForm"
  /\ pc' = "tick"
  /\ page' = [page EXCEPT !.src = "content"]
  /\ UNCHANGED aside
  /\ UNCHANGED << proc, req, pre, timer, tp, post, cpu, fin, chan, log, resp, hdrs,
                  events, rin, extracted, parseCalls, cacheCalls, serCalls >>

\* ------------------------------------------------ the promise chain
\* The callbacks of the chain in front of .timeout().  Each runs to completion
\* and ends by settling the chain or by starting the next external operation.
\* pg is env.page (and the closure's wt) as the callback leaves it.

Reject(pg, r, e) ==
  /\ pc' = "settled" /\ pre' = Rejected(e) /\ page' = pg /\ rin' = r
  /\ UNCHANGED << hdrs, extracted, parseCalls, cacheCalls, serCalls, events, resp >>

Fulfil(pg, h, v) ==
  /\ pc' = "settled" /\ pre' = Fulfilled(v) /\ page' = pg /\ hdrs' = h
  /\ UNCHANGED << rin, extracted, parseCalls, cacheCalls, serCalls, events, resp >>

\* env.pipelineFactory.parse(env, src, expansions) is called.
pipelineParse(pg, h, r, x, exp) ==
  /\ pc' = "parse" /\ page' = pg /\ hdrs' = h /\ rin' = r /\ extracted' = x
  /\ parseCalls' = Append(parseCalls, [ src |-> pg.src, exp |-> exp ])
  /\ events' = Append(events, "parse")
  /\ UNCHANGED << pre, cacheCalls, serCalls, resp >>

\* parseWt (lines 369-390).
parseWt(pg) ==
  pipelineParse([pg EXCEPT !.src = pg.wt], [hdrs EXCEPT !.cacheControl = NoCache],
                rin, extracted, NoExp)

\* The second half of substTopLevelTemplates (lines 472-474): the rewritten
\* wikitext goes to the MediaWiki API with onlypst set.
preprocess(pg) ==
  /\ pc' = "preproc" /\ page' = pg
  /\ events' = Append(events, "preproc")
  /\ UNCHANGED << pre, hdrs, rin, extracted, parseCalls, cacheCalls, serCalls, resp >>

\* ---- parse(env, req, res), lines 142-210: reuse of expansions
\* What a reuse callback returns: ret (has = FALSE for null / undefined).
Ret(e, m) == [ has |-> TRUE, exp |-> e, mode |-> m ]
NullRet == [ has |-> FALSE, exp |-> [ transclusions |-> {}, files |-> {} ], mode |-> "" ]

\* ["templates", "files"].some(...) over v2.update (lines 158-165).
updateMode(updT, updF) ==
  IF updT THEN "templates" ELSE IF updF THEN "files" ELSE ""

\* Mutant of invalidate: the two cases clear each other's kind.
invalidate_Swapped(mode, e) ==
  CASE mode = "templates" -> [e EXCEPT !.files = {}]
    [] mode = "files" -> [e EXCEPT !.transclusions = {}]
    [] OTHER -> e

\* switch ( ret.mode ) (lines 197-206).
invalidate(mode, e) ==
  CASE mode = "templates" -> [e EXCEPT !.transclusions = {}]
    [] mode = "files" -> [e EXCEPT !.files = {}]
    [] OTHER -> e

\* Mutant of reusable: the parser is called without the resolver's result.
reusable_Dropped(ret) == NoExp

\* ret && ret.expansions, after the switch (lines 194-208).
reusable(ret) ==
  IF ret.has THEN Exp(invalidate(ret.mode, ret.exp)) ELSE NoExp

\* Mutant of reusePath: the x-parsoid-request header is not looked at.
reusePath_IgnoresMarker(api, payload, cacheURI, marker) ==
  IF api = "v2" /\ payload # "none" THEN "explicit"
  ELSE IF cacheURI THEN "cache"
  ELSE "none"

\* Which source of expansions parse() picks (lines 150, 169).
reusePath(api, payload, cacheURI, marker) ==
  IF api = "v2" /\ payload # "none" THEN "explicit"
  ELSE IF cacheURI /\ ~marker THEN "cache"
  ELSE "none"

\* parsoidHeader.cacheID || meta.revision.parentid (line 175).
cacheKey(cacheID, parentid) == IF Truthy(cacheID) THEN cacheID ELSE parentid

\* The success callback of the cache request (lines 178-186).
cacheCallback(e, cacheID, hmode) ==
  Ret(e, IF Truthy(cacheID) THEN hmode ELSE "")

\* Mutant of cacheErrback: the error is passed on.
cacheErrback_Rethrow(err) == [ ok |-> FALSE, ret |-> NullRet ]

\* The error callback of the cache request (lines 187-190).
cacheErrback(err) == [ ok |-> TRUE, ret |-> NullRet ]

ParentIds == { "" } \cup RevIds
HeaderModes == { "", "templates", "files" }

\* parse(), from its call to the first external operation it starts.
parse(pg) ==
  \E payload \in (IF req.api = "v2" THEN { "none", "full", "partial" } ELSE { "none" }),
     cacheURI \in BOOLEAN, marker \in BOOLEAN :
    LET path == reusePath(req.api, payload, cacheURI, marker)
        r0 == [ rin EXCEPT !.path = path, !.payload = payload,
                           !.cacheURI = cacheURI, !.marker = marker ]
    IN
    CASE path = "explicit" ->
           /\ IF payload = "partial"
                THEN \* revision.html or revision["data-parsoid"] is undefined
                     Reject(pg, r0, Val("TypeError", "undefined has no property body", TRUE))
                ELSE \E e \in ExpSets, updT \in BOOLEAN, updF \in BOOLEAN :
                       LET ret == Ret(e, updateMode(updT, updF))
                       IN pipelineParse(pg, hdrs,
                            [ r0 EXCEPT !.updT = updT, !.updF = updF, !.mode = ret.mode ],
                            Exp(e), reusable(ret))
      [] path = "cache" ->
           \E hdr \in { "none", "bad", "ok" }, cacheID \in { "", "c1" },
              hmode \in HeaderModes, parentid \in ParentIds :
             /\ hdr # "ok" => cacheID = "" /\ hmode = ""
             /\ hdr = "bad" => parentid = ""
             /\ LET r1 == [ r0 EXCEPT !.hdr = hdr, !.cacheID = cacheID, !.hmode = hmode,
                                      !.parentid = parentid ]
                IN IF hdr = "bad"
                     THEN \* JSON.parse throws
                          Reject(pg, r1, Val("SyntaxError", "Unexpected token", TRUE))
                     ELSE /\ pc' = "cache" /\ page' = pg /\ rin' = r1
                          /\ cacheCalls' = Append(cacheCalls,
                               [ title |-> req.pageName, cacheID |-> cacheKey(cacheID, parentid) ])
                          /\ events' = Append(events, "cache")
                          /\ UNCHANGED << pre, hdrs, extracted, parseCalls, serCalls, resp >>
      [] OTHER ->
           pipelineParse(pg, hdrs, r0, extracted, reusable(NullRet))

\* ---- redirectToOldid (lines 417-450)
\* req.query: the parameters of the query string, by name.
QueryKeys == { "body", "oldid" }
Queries == UNION { [D -> { "", "1" }] : D \in SUBSET QueryKeys }

\* Mutant of redirectTarget: v1 forgets req.query.oldid = oldid.
redirectTarget_NoOldid(r, target, oldid, query) ==
  IF r.api = "v2"
    THEN [ path |-> << "v2", "en.wikipedia.org", r.format, target, oldid >>,
           query |-> query ]
    ELSE [ path |-> << r.iwp, target >>, query |-> query ]

\* The path relativeRedirect is given, and the query that is stringified onto it.
redirectTarget(r, target, oldid, query) ==
  IF r.api = "v2"
    THEN [ path |-> << "v2", "en.wikipedia.org", r.format, target, oldid >>,
           query |-> query ]
    ELSE [ path |-> << r.iwp, target >>,
           query |-> [ k \in DOMAIN query \cup { "oldid" } |->
                         IF k = "oldid" THEN oldid ELSE query[k] ] ]

redirectToOldid(pg) ==
  \E query \in Queries :
    \* v1: res.local('oldid') is req.query.oldid when that is not empty
    /\ (req.api = "v1" /\ "oldid" \in DOMAIN query) => query["oldid"] = ""
    /\ pc' = "settled" /\ pre' = Fulfilled(Undefined) /\ page' = pg
    /\ hdrs' = [hdrs EXCEPT !.cacheControl = NoCache]
    /\ resp' = Append(resp,
         [ kind |-> "redirect", oldq |-> query,
           to |-> redirectTarget(req, req.pageName, pg.revid, query) ])
    /\ events' = Append(events, "redirect")
    /\ UNCHANGED << rin, extracted, parseCalls, cacheCalls, serCalls >>

\* ---- roundTripDiff, up to DU.serializeDOM (lines 105-109), with what the
\* route does to the document first (lines 698-701, 729-733).
roundTripDiff(route) ==
  /\ pc' = "serialize"
  /\ serCalls' = Append(serCalls,
       [ useSelser |-> (route = "roundtripSelser"),
         prep |-> CASE route = "roundtripTestingNL" -> "stripNL"
                    [] route = "roundtripSelser" -> "selserComment"
                    [] OTHER -> "none" ])
  /\ events' = Append(events, "serialize")
  /\ UNCHANGED << pre, page, hdrs, rin, extracted, parseCalls, cacheCalls, resp >>

\* The callback that follows the page source (the fetch, or Promise.resolve()).
afterSource(pg) ==
  CASE req.handler = "wt2html" /\ Branch(req) = "inline" ->
         IF req.subst THEN preprocess(pg) ELSE parseWt(pg)
    [] req.handler = "wt2html" /\ Branch(req) = "revision" -> parse(pg)
    [] req.handler = "wt2html" /\ Branch(req) = "redirect" -> redirectToOldid(pg)
    [] OTHER -> parse(pg)

chainFrame == UNCHANGED << proc, req, timer, tp, post, cpu, fin, chan, log, aside >>

\* Promise.resolve() at the head of the chain: its first callback runs.
Tick ==
  /\ pc = "tick"
  /\ afterSource(page)
  /\ chainFrame

\* TemplateRequest.setPageSrcInfo settles.
FetchSettle ==
  /\ pc = "fetch"
  /\ \/ \E latest \in RevIds :
          afterSource([page EXCEPT !.src = "fetched",
                                   !.revid = IF Truthy(req.oldid) THEN req.oldid ELSE latest])
     \/ Reject(page, rin, Err("fetch failed"))
  /\ chainFrame

\* PHPParseRequest settles (lines 474-480).
PreprocSettle ==
  /\ pc = "preproc"
  /\ \/ parseWt([page EXCEPT !.wt = "pst", !.discardDataParsoid = TRUE])
     \/ Reject(page, rin, Err("preprocessor failed"))
  /\ chainFrame

\* ParsoidCacheRequest settles (lines 178-190), then lines 194-209.
CacheSettle ==
  /\ pc = "cache"
  /\ \/ \E e \in ExpSets :
          pipelineParse(page, hdrs, [rin EXCEPT !.cacheHit = "hit",
                                       !.mode = cacheCallback(e, rin.cacheID, rin.hmode).mode],
                        Exp(e), reusable(cacheCallback(e, rin.cacheID, rin.hmode)))
     \/ LET r == cacheErrback(Err("cache miss"))
            r1 == [rin EXCEPT !.cacheHit = "miss"]
        IN IF r.ok THEN pipelineParse(page, hdrs, r1, extracted, reusable(r.ret))
                   ELSE Reject(page, r1, Err("cache miss"))
  /\ chainFrame

\* env.pipelineFactory.parse settles.
ParseSettle ==
  /\ pc = "parse"
  /\ \/ CASE req.handler = "wt2html" /\ Branch(req) = "revision" ->
               \* parsePageWithOldid, lines 400-414
               Fulfil(page,
                      [ hdrs EXCEPT !.cacheControl = cacheControl(req.cookie, req.api = "v2"),
                                    !.revisionId = req.oldid,
                                    !.cookie = req.cookie ],
                      Doc)
          [] req.handler = "wt2html" /\ Branch(req) # "revision" -> Fulfil(page, hdrs, Doc)
          [] OTHER -> roundTripDiff(req.handler)
     \/ Reject(page, rin, Err("parse failed"))
  /\ chainFrame

\* DU.serializeDOM settles; for the round-trip routes the diff follows (lines 109-139).
SerializeSettle ==
  /\ pc = "serialize"
  /\ \/ Fulfil(page, hdrs, Val("value", IF req.handler = "html2wt" THEN "wikitext" ELSE "report", FALSE))
     \/ Reject(page, rin, Err("serialize failed"))
  /\ chainFrame

\* ------------------------------------------- timeout, continuation, catch
\* The promise .timeout() returned follows the chain in front of it.  Where the
\* handler has no .timeout(), tp stands for the chain itself.
Adopt ==
  /\ Settled(pre) /\ tp = Pending
  /\ tp' = pre
  /\ UNCHANGED aside
  /\ UNCHANGED << proc, req, pc, pre, timer, post, cpu, fin, chan, log, resp, hdrs,
                  events, page, rin, extracted, parseCalls, cacheCalls, serCalls >>

\* The timer of .timeout(REQ_TIMEOUT) fires while the promise is pending: a
\* TimeoutError.  (Firing after the promise has settled changes nothing.)
TimerFire ==
  /\ timer = "armed" /\ tp = Pending
  /\ timer' = "fired"
  /\ tp' = Rejected(TimeoutError)
  /\ UNCHANGED aside
  /\ UNCHANGED << proc, req, pc, pre, post, cpu, fin, chan, log, resp, hdrs,
                  events, page, rin, extracted, parseCalls, cacheCalls, serCalls >>

\* The response the success continuation sends: sendRes (lines 329-367), the
\* wikitext response of html2wt (lines 277-298), rtResponse (lines 100-103).
successKind(r) ==
  CASE r.handler = "wt2html" -> IF r.format = "pagebundle" THEN "pagebundle" ELSE "html"
    [] r.handler = "html2wt" -> "wikitext"
    [] OTHER -> "roundtrip"

NoTarget == [ path |-> << >>, query |-> << >> ]

\* .then(sendRes) and its like, behind .timeout(): runs on fulfilment, and
\* passes a rejection on.  The redirect branch has no such continuation.  The
\* callback may throw before it has sent the response (serializing the document)
\* or after (the timing reports, logTime).
SuccessCont ==
  /\ Settled(tp) /\ post = Pending
  /\ IF tp.st = "fulfilled" /\ ~(req.handler = "wt2html" /\ Branch(req) = "redirect")
       THEN \E thrown \in { "no", "before", "after" } :
              /\ IF thrown = "before"
                   THEN UNCHANGED << resp, events >>
                   ELSE /\ resp' = Append(resp, [ kind |-> successKind(req), oldq |-> << >>,
                                                  to |-> NoTarget ])
                        /\ events' = Append(events, "respond")
              /\ post' = IF thrown = "no" THEN Fulfilled(Undefined)
                                          ELSE Rejected(Err("thrown in the continuation"))
       ELSE /\ post' = tp
            /\ UNCHANGED << resp, events >>
  /\ UNCHANGED aside
  /\ UNCHANGED << proc, req, pc, pre, timer, tp, cpu, fin, chan, log, hdrs,
                  page, rin, extracted, parseCalls, cacheCalls, serCalls >>

\* cpuTimeout's reactions on p (lines 86-88): done, then resolve / reject.
cpuSettle ==
  /\ req.handler # "postRtForm"
  /\ Settled(post) /\ cpu = Pending
  /\ chan' = cpuTimeoutDone(chan, req)
  /\ cpu' = post
  /\ events' = events \o (IF Len(chan') > Len(chan) THEN << "done" >> ELSE << >>)
  /\ UNCHANGED aside
  /\ UNCHANGED << proc, req, pc, pre, timer, tp, post, fin, log, resp, hdrs,
                  page, rin, extracted, parseCalls, cacheCalls, serCalls >>

\* Mutant of errBack: the error response is sent whatever was sent before.
errBack_Always(rs, logData) ==
  Append(rs, [ kind |-> "error", oldq |-> << >>, to |-> NoTarget ])

\* errBack (lines 526-542), the backend env.log("fatal/...") reaches: nothing is
\* sent when env.responseSent is set or the response is finished.
errBack(rs, logData) ==
  IF rs # << >> THEN rs
  ELSE Append(rs, [ kind |-> "error", oldq |-> << >>, to |-> NoTarget ])

\* .catch(timeoutResp.bind(null, env)) (lines 300, 509, 675, 707, 739).
catchTimeoutResp ==
  /\ req.handler # "postRtForm"
  /\ Settled(cpu) /\ fin = Pending
  /\ IF cpu.st = "rejected"
       THEN /\ log' = Append(log, timeoutResp(cpu.v))
            /\ resp' = errBack(resp, timeoutResp(cpu.v))
            /\ fin' = Fulfilled(Undefined)
       ELSE /\ fin' = cpu
            /\ UNCHANGED << log, resp >>
  /\ UNCHANGED aside
  /\ UNCHANGED << proc, req, pc, pre, timer, tp, post, cpu, chan, hdrs,
                  events, page, rin, extracted, parseCalls, cacheCalls, serCalls >>

\* postRtForm's own catch (lines 767-769).
postRtFormCatch ==
  /\ req.handler = "postRtForm"
  /\ Settled(post) /\ fin = Pending
  /\ IF post.st = "rejected"
       THEN /\ log' = Append(log, post.v)
            /\ resp' = errBack(resp, post.v)
            /\ fin' = Fulfilled(Undefined)
       ELSE /\ fin' = post
            /\ UNCHANGED << log, resp >>
  /\ UNCHANGED aside
  /\ UNCHANGED << proc, req, pc, pre, timer, tp, post, cpu, chan, hdrs,
                  events, page, rin, extracted, parseCalls, cacheCalls, serCalls >>

\* ---------------------------------------------------------------- Spec
Next ==
  \/ wt2html \/ html2wt \/ roundtrip \/ postRtForm
  \/ Tick \/ FetchSettle \/ PreprocSettle \/ CacheSettle \/ ParseSettle \/ SerializeSettle
  \/ Adopt \/ TimerFire \/ SuccessCont \/ cpuSettle \/ catchTimeoutResp \/ postRtFormCatch

Spec == Init /\ [][Next]_vars

\* ======================================================== properties
Range(q) == { q[i] : i \in DOMAIN q }
\* The responses that are not the error response of the fatal log backend.
Answers == SelectSeq(resp, LAMBDA r : r.kind # "error")
Starts == { i \in DOMAIN chan : ~chan[i].done }
Dones == { i \in DOMAIN chan : chan[i].done }

\* The process is a cluster worker on a runtime that has the feature.
WorkerPoolMode == ~proc.isMaster /\ ~(proc.version[1] = 0 /\ proc.version[2] <= 8)
\* The handler has called cpuTimeout for the request.
PassedThroughCpuTimeout == req.handler # "postRtForm" /\ pc \notin { "new", "thrown" }
ExternalOps == { "fetch", "preproc", "cache", "parse", "serialize" }
TimedOut == tp = Rejected(TimeoutError)

\* C1: in worker-pool mode a request passed through cpuTimeout has exactly one
\* start message, sent first and carrying its timeoutId; at most one done message,
\* with the same timeoutId, never before the start and never before the wrapped
\* promise has settled; and once cpuTimeout's reactions have run (however the
\* wrapped promise settled) the done message has been sent.
C1_StartAndDoneOncePerRequest ==
  (WorkerPoolMode /\ PassedThroughCpuTimeout) =>
    /\ Starts = { 1 }
    /\ chan[1].timeoutId = req.timeoutId
    /\ Cardinality(Dones) <= 1
    /\ \A i \in Dones : i > 1 /\ chan[i].timeoutId = req.timeoutId /\ Settled(post)
    /\ Settled(cpu) => Cardinality(Dones) = 1

\* C1 witness: a soft timeout settled the wrapped promise and done followed the start.
C1_Witness ==
  /\ WorkerPoolMode /\ post = Rejected(TimeoutError)
  /\ Len(chan) = 2 /\ ~chan[1].done /\ chan[2].done

\* C2 (as claimed): whenever a request waits for an external operation and its
\* pipeline has not settled, the soft-deadline timer is pending to settle it.
C2_EveryExternalOperationRaced ==
  (pc \in ExternalOps /\ ~Settled(tp)) => timer = "armed"

\* C3: once the soft deadline has fired before the pipeline settled, no success
\* response is ever sent and the error logged is the generic "Request timed out."
\* without a stack; a failure that is not a timeout is logged unchanged.
C3_TimeoutIsGenericAndFinal ==
  /\ TimedOut =>
       /\ Answers = << >> /\ "respond" \notin Range(events)
       /\ Settled(fin) => log = << Val("Error", "Request timed out.", FALSE) >>
  /\ (tp.st = "rejected" /\ ~TimedOut /\ Settled(fin)) =>
       /\ log = << tp.v >> /\ tp.v = pre.v /\ tp.v.stack

\* C3 witness: the deadline fired, the underlying chain completed afterwards,
\* and the request ended with the timeout logged.
C3_Witness ==
  TimedOut /\ pre.st = "fulfilled" /\ Settled(fin) /\ Len(log) = 1

\* C4 (as claimed): in worker-pool mode no step of the pipeline begins before
\* the start message has been sent.
StepEvents == { "fetch", "tokenize", "domparse", "serialize", "preproc", "cache", "parse" }
C4_StartBeforeAnyStep ==
  (WorkerPoolMode /\ req.handler # "postRtForm") =>
    \A i \in DOMAIN events :
      events[i] \in StepEvents => \E j \in 1..(i - 1) : events[j] = "start"

\* C5: in the cluster master, or on a runtime before v0.9, no message is sent and
\* the promise cpuTimeout returned settles exactly as the wrapped one.
C5_NoHeartbeatOutsideWorkerPool ==
  (proc.isMaster \/ (proc.version[1] = 0 /\ proc.version[2] <= 8)) =>
    /\ chan = << >>
    /\ Settled(cpu) => cpu = post

\* C5 witness: a worker on v0.8 whose wrapped promise was rejected.
C5_Witness ==
  /\ ~proc.isMaster /\ proc.version = << 0, 8 >>
  /\ cpu.st = "rejected" /\ cpu = post

\* C6: a wt2html request with neither a revision id nor wikitext never reaches
\* the parser; when its fetch succeeds it sends exactly one response, a redirect
\* whose target holds the revision id the content source gave (last in the path
\* for v2, as oldid in the query for v1) and every original query parameter,
\* and Cache-Control is set to no-cache.
RedirectCase == req.handler = "wt2html" /\ ~req.wtGiven /\ req.oldid = ""
C6_RedirectToLatestRevision ==
  RedirectCase =>
    /\ parseCalls = << >> /\ "parse" \notin Range(events)
    /\ pre.st = "fulfilled" => Len(Answers) >= 1
    /\ Len(Answers) <= 1
    /\ \A i \in DOMAIN Answers :
         LET to == Answers[i].to
             q0 == Answers[i].oldq
         IN /\ Answers[i].kind = "redirect"
            /\ page.revid \in RevIds
            /\ req.api = "v2" => to.path[Len(to.path)] = page.revid /\ to.query = q0
            /\ req.api = "v1" => "oldid" \in DOMAIN to.query /\ to.query["oldid"] = page.revid
            /\ \A k \in DOMAIN q0 :
                 k \in DOMAIN to.query /\ (k # "oldid" => to.query[k] = q0[k])
            /\ hdrs.cacheControl = NoCache

\* C6 witness: a v1 redirect that carried an original query parameter over.
C6_Witness ==
  /\ RedirectCase /\ req.api = "v1" /\ Len(Answers) = 1
  /\ "body" \in DOMAIN Answers[1].oldq /\ Settled(fin)

\* The kinds the caller flagged together with the payload that is reused: the
\* update flags beside an explicit previous/original payload, the mode of the
\* X-Parsoid header beside its cacheID for a cached copy.
FlaggedTemplates ==
  \/ rin.payload = "full" /\ rin.updT
  \/ rin.cacheHit = "hit" /\ rin.cacheID # "" /\ rin.hmode = "templates"
FlaggedFiles ==
  \/ rin.payload = "full" /\ rin.updF
  \/ rin.cacheHit = "hit" /\ rin.cacheID # "" /\ rin.hmode = "files"
\* Expansions were extracted from a prior document and handed to the parser.
Reused == extracted.given /\ Len(parseCalls) = 1

C8_NoFlaggedKindReused ==
  (rin.payload = "full" /\ Len(parseCalls) = 1) =>
    /\ rin.updT => parseCalls[1].exp.transclusions = {}
    /\ rin.updF => parseCalls[1].exp.files = {}

\* C9: the cache is asked only without a previous/original payload, with a cache
\* URI configured and without the x-parsoid-request header, and then it is asked
\* (once) under the header's cacheID when that is given and under the parent id
\* otherwise; with a payload the expansions come from it and the cache is not
\* asked; in every other case the parser is called with no expansion set.
ResolverRan == rin.path # "unread"
HasPayload == req.api = "v2" /\ rin.payload # "none"
C9_CacheLookupOnlyWhenDue ==
  /\ Len(cacheCalls) <= 1
  /\ cacheCalls # << >> =>
       /\ ~HasPayload /\ rin.cacheURI /\ ~rin.marker
       /\ cacheCalls[1].cacheID = (IF rin.cacheID # "" THEN rin.cacheID ELSE rin.parentid)
  /\ (ResolverRan /\ ~HasPayload /\ rin.cacheURI /\ ~rin.marker /\ rin.hdr # "bad") =>
       cacheCalls # << >>
  /\ HasPayload =>
       /\ cacheCalls = << >>
       /\ parseCalls # << >> =>
            /\ extracted.given /\ parseCalls[1].exp.given
            /\ parseCalls[1].exp.transclusions \subseteq extracted.transclusions
            /\ parseCalls[1].exp.files \subseteq extracted.files
  /\ (ResolverRan /\ ~HasPayload /\ ~(rin.cacheURI /\ ~rin.marker)) =>
       /\ cacheCalls = << >>
       /\ Len(parseCalls) = 1 /\ parseCalls[1].exp = NoExp

\* C9 witness: a lookup under the caller's cacheID although a parent id is known.
C9_Witness ==
  /\ Len(cacheCalls) = 1 /\ rin.cacheID = "c1" /\ rin.parentid # ""
  /\ cacheCalls[1].cacheID = "c1"

\* C10: after a cache lookup that missed or failed, the parser has been called on
\* the page source with no expansion set, and no failure of the request comes
\* from the lookup.
C10_CacheMissIsNoReuse ==
  rin.cacheHit = "miss" =>
    /\ Len(parseCalls) = 1
    /\ parseCalls[1].exp = NoExp /\ parseCalls[1].src = page.src
    /\ ~extracted.given
    /\ pre.st = "rejected" => pre.v = Err("parse failed") \/ pre.v = Err("serialize failed")
    /\ \A i \in DOMAIN log : log[i].msg # "cache miss"

\* C10 witness: the lookup missed and the request was answered all the same.
C10_Witness ==
  rin.cacheHit = "miss" /\ Len(Answers) = 1 /\ post.st = "fulfilled"

\* ------------------------------------ specification of the subst rewrite
\* The request variables while something else than a request is followed.
ProcIdle == proc = [ isMaster |-> TRUE, version |-> << 0, 10 >>, useSelser |-> FALSE ]

ChainIdle ==
  /\ req = [ handler |-> "wt2html", api |-> "v1", format |-> "", wtGiven |-> TRUE,
             oldid |-> "", subst |-> TRUE, cookie |-> FALSE, timeoutId |-> "t1",
             iwp |-> "enwiki",
             pageName |-> "Main_Page" ]
  /\ pc = "new"
  /\ pre = Pending /\ tp = Pending /\ post = Pending /\ cpu = Pending /\ fin = Pending
  /\ timer = "none"
  /\ chan = << >> /\ log = << >> /\ resp = << >> /\ events = << >>
  /\ hdrs = [ cacheControl |-> "", revisionId |-> "", cookie |-> FALSE ]
  /\ page = [ src |-> "", wt |-> "wt", revid |-> "", discardDataParsoid |-> FALSE ]
  /\ rin = NoRin
  /\ extracted = NoExp
  /\ parseCalls = << >> /\ cacheCalls = << >> /\ serCalls = << >>

RequestIdle == ProcIdle /\ ChainIdle

SubstInit ==
  /\ RequestIdle /\ MiddleIdle /\ ConfigIdle /\ PairIdle /\ SuperIdle /\ RtIdle
  /\ wt \in Wikitexts /\ wt0 = wt
  /\ tokens = << >> /\ spc = "idle"

\* substTopLevelTemplates, its synchronous part (lines 458-469).
substTopLevelTemplates ==
  /\ spc = "idle"
  /\ \E toks \in Tokenizations(wt) :
       /\ tokens' = toks
       /\ wt' = substLoop(wt, toks, 1, 0)
  /\ spc' = "rewritten"
  /\ UNCHANGED << wt0, substAside >>

SubstNext == substTopLevelTemplates

SubstSpec == SubstInit /\ [][SubstNext]_<< vars, aside >>

\* The template tokens, left to right, and their number.
TemplateToks == SelectSeq(tokens, LAMBDA t : t.name = "template")
\* By how much the character at offset j of the original has moved.
Shift(j) == 6 * Cardinality({ k \in DOMAIN TemplateToks : TemplateToks[k].tsr0 + 2 <= j })

\* C11: after the rewrite the wikitext is the original with "subst:" inserted
\* right behind the opening "{{" of each of the N template invocations: it is
\* 6*N characters longer, every character of the original is still there in the
\* same order, and the k-th marker begins at original offset + 2 + 6*(k-1).
C11_SubstInsertedAfterEachOpening ==
  spc = "rewritten" =>
    /\ Len(wt) = Len(wt0) + 6 * Len(TemplateToks)
    /\ \A j \in 0..(Len(wt0) - 1) : wt[j + Shift(j) + 1] = wt0[j + 1]
    /\ \A k \in DOMAIN TemplateToks :
         LET at == TemplateToks[k].tsr0 + 2 + 6 * (k - 1)
         IN SubSeq(wt, at + 1, at + 6) = << "s", "u", "b", "s", "t", ":" >>

\* C11 witness: two invocations with a character, and a token for it, between
\* them were rewritten.
C11_Witness ==
  /\ spc = "rewritten" /\ Len(TemplateToks) = 2
  /\ wt0 = << "{", "{", "x", "{", "{" >>
  /\ Len(tokens) = 3 /\ tokens[2].name = "text"

\* ------------------------------------------------ substitution, headers
\* C12 (as claimed): for every wt2html request with the subst flag set, a parse
\* is preceded by the preprocessor request, is given the preprocessor's result,
\* and env.discardDataParsoid is set by then.
C12_SubstBeforeParse ==
  (req.handler = "wt2html" /\ req.subst) =>
    \A i \in DOMAIN events :
      events[i] = "parse" =>
        /\ \E j \in 1..(i - 1) : events[j] = "preproc"
        /\ \A k \in DOMAIN parseCalls : parseCalls[k].src = "pst"
        /\ page.discardDataParsoid

\* A response of wt2html has been sent: a rendering or a redirect.
Wt2htmlAnswered == req.handler = "wt2html" /\ Answers # << >>

\* C13 (as claimed): a v2 request or one with a session cookie is answered
\* no-cache; a v1 request with a revision id and no cookie is answered
\* long-lived cacheable with the revision id in content-revision-id.
C13_AsClaimed ==
  Wt2htmlAnswered =>
    /\ (req.api = "v2" \/ req.cookie) => hdrs.cacheControl = NoCache
    /\ (Truthy(req.oldid) /\ req.api = "v1" /\ ~req.cookie) =>
         hdrs.cacheControl = LongLived /\ hdrs.revisionId = req.oldid

\* C13 (amended): a v2 request or one with a session cookie is answered
\* no-cache; a v1 request with a revision id, no cookie and no wikitext of its
\* own is answered long-lived cacheable with the revision id in
\* content-revision-id; a request that brings its wikitext is answered no-cache
\* and without content-revision-id whatever else it carries.
C13_CacheControlBySession ==
  Wt2htmlAnswered =>
    /\ (req.api = "v2" \/ req.cookie) => hdrs.cacheControl = NoCache
    /\ (Truthy(req.oldid) /\ req.api = "v1" /\ ~req.cookie /\ ~req.wtGiven) =>
         hdrs.cacheControl = LongLived /\ hdrs.revisionId = req.oldid
    /\ req.wtGiven => hdrs.cacheControl = NoCache /\ hdrs.revisionId = ""

\* C13 witness: a v1 request for a revision, with a session cookie, was
\* answered no-cache and with the revision id echoed.
C13_Witness ==
  /\ Wt2htmlAnswered /\ req.api = "v1" /\ req.cookie /\ ~req.wtGiven
  /\ hdrs.cacheControl = NoCache /\ hdrs.revisionId = req.oldid /\ req.oldid \in RevIds

\* C14: html2wt calls the serializer with selective serialization exactly when
\* the revision id is neither null, empty nor '0' and parsoidConfig.useSelser is
\* set; without a revision id the serializer is still called, in full mode, and
\* the only failures are the serializer's own.
C14_SelserOnlyWithRevision ==
  req.handler = "html2wt" =>
    /\ Len(serCalls) <= 1
    /\ \A i \in DOMAIN serCalls :
         serCalls[i].useSelser = (req.oldid \notin { "", "0" } /\ proc.useSelser)
    /\ (req.oldid \in { "", "0" } /\ pc \notin { "new", "thrown" }) =>
         /\ Len(serCalls) = 1 /\ ~serCalls[1].useSelser
         /\ pre.st = "rejected" => pre.v = Err("serialize failed")

\* C14 witness: selser is configured, the request has the revision id '0', and
\* the document was serialized in full and answered.
C14_Witness ==
  /\ req.handler = "html2wt" /\ req.oldid = "0" /\ proc.useSelser
  /\ Len(serCalls) = 1 /\ ~serCalls[1].useSelser
  /\ Len(Answers) = 1 /\ Answers[1].kind = "wikitext"

\* ------------------------------- specification of the v2 middleware
MiddleInit ==
  /\ RequestIdle /\ SubstIdle /\ ConfigIdle /\ PairIdle /\ SuperIdle /\ RtIdle
  /\ v2req \in V2Requests
  /\ local = NoLocal /\ sent = << >> /\ stage = "arrived" /\ called = ""

\* routes.v2Middle (lines 794-838).
v2Middle ==
  /\ stage = "arrived"
  /\ LET fmt == v2Format(v2req)
         l1 == [ local EXCEPT !.iwp = DomainPrefix[v2req.domain],
                              !.pageName = v2req.title, !.oldid = v2req.revision ]
         l2 == [ l1 EXCEPT !.subst = v2req.subst ]
         l3 == IF v2req.method = "POST"
                 THEN [ l2 EXCEPT
                          !.oldid = IF Truthy(v2req.origRevid) THEN v2req.origRevid ELSE @,
                          !.pageName = IF Truthy(v2req.origTitle) THEN v2req.origTitle ELSE @ ]
                 ELSE l2
     IN IF v2req.domain \notin DOMAIN DomainPrefix
          THEN /\ sent' = Append(sent, errOut("Invalid domain.", 0))
               /\ stage' = "rejected" /\ UNCHANGED local
        ELSE IF ~formatOk(v2req.method, fmt)
          THEN /\ sent' = Append(sent, errOut("Invalid format.", 0))
               /\ stage' = "rejected" /\ local' = l1
        ELSE IF ~substOk(v2req.subst, fmt)
          THEN /\ sent' = Append(sent,
                    errOut("Substitution is only supported for the HTML format.", 501))
               /\ stage' = "rejected" /\ local' = l2
        ELSE /\ local' = [ l3 EXCEPT !.v2 = TRUE, !.format = fmt ]
             /\ stage' = "next" /\ UNCHANGED sent
  /\ UNCHANGED << v2req, called, midAside >>

\* routes.v2Get (lines 846-848).
v2Get ==
  /\ stage = "next" /\ v2req.method = "GET"
  /\ called' = "wt2html" /\ stage' = "handled"
  /\ UNCHANGED << v2req, local, sent, midAside >>

\* routes.v2Post (lines 851-882).
v2Post ==
  /\ stage = "next" /\ v2req.method = "POST"
  /\ IF local.format \in wt2htmlFormats
       THEN IF ~isString(wikitextOf(v2req.wikitext)) /\ ~Truthy(local.pageName)
              THEN /\ sent' = Append(sent, errOut("No title or wikitext was provided.", 400))
                   /\ stage' = "rejected" /\ UNCHANGED called
              ELSE /\ called' = "wt2html" /\ stage' = "handled" /\ UNCHANGED sent
       ELSE IF v2req.html = "undefined"
              THEN /\ sent' = Append(sent, errOut("No html was supplied.", 400))
                   /\ stage' = "rejected" /\ UNCHANGED called
            ELSE IF htmlOf(v2req.html) = "TypeError"
              THEN /\ stage' = "thrown" /\ UNCHANGED << sent, called >>
              ELSE /\ called' = "html2wt" /\ stage' = "handled" /\ UNCHANGED sent
  /\ UNCHANGED << v2req, local, midAside >>

MiddleNext == v2Middle \/ v2Get \/ v2Post

MiddleSpec == MiddleInit /\ [][MiddleNext]_<< vars, aside >>

\* v2Middle has run on the request.
Screened == stage # "arrived"
\* The request was turned away by v2Middle itself: res.local('v2') was never set.
TurnedAway == stage = "rejected" /\ ~local.v2
KnownDomain == v2req.domain \in { "en.wikipedia.org" }

\* C15: a v2 request whose domain is not configured, whose format is not a
\* supported one, or that is a GET for the wt format is answered with one
\* error and reaches neither next() nor a conversion handler; every other
\* combination of domain, method and format gets past these two checks.
C15_DomainAndFormatScreened ==
  Screened =>
    LET fmt == v2Format(v2req)
        bad == \/ ~KnownDomain
               \/ fmt \notin { "pagebundle", "html", "wt" }
               \/ (v2req.method = "GET" /\ fmt = "wt")
    IN /\ bad => /\ TurnedAway /\ called = "" /\ Len(sent) = 1
                 /\ sent[1].msg \in { "Invalid domain.", "Invalid format." }
       /\ ~bad => \A i \in DOMAIN sent :
                    sent[i].msg \notin { "Invalid domain.", "Invalid format." }
       /\ (~bad /\ ~v2req.subst) => ~TurnedAway

\* C15 witness: a GET for the wt format on a configured domain was turned away.
C15_Witness ==
  /\ KnownDomain /\ v2req.method = "GET" /\ v2Format(v2req) = "wt" /\ v2req.bodyFormat = ""
  /\ TurnedAway /\ sent = << [ msg |-> "Invalid format.", code |-> 404 ] >>

SubstMsg == [ msg |-> "Substitution is only supported for the HTML format.", code |-> 501 ]

Failed == pc = "thrown" \/ tp.st = "rejected" \/ post.st = "rejected"

\* C17 (as claimed): for wt2html, html2wt and the round-trip routes a failure
\* in the chain, once the chain has run to its end, and a failure thrown while
\* the handler sets the chain up have been given to env.log("fatal/request"),
\* and the promise the handler returns is never rejected.
C17_EveryFailureLogged ==
  req.handler # "postRtForm" =>
    /\ fin.st # "rejected"
    /\ (Failed /\ (Settled(fin) \/ pc = "thrown")) => Len(log) = 1

\* ---------------------------------- specification of the ParsoidConfig
ConfigInit ==
  /\ RequestIdle /\ SubstIdle /\ MiddleIdle /\ PairIdle /\ SuperIdle /\ RtIdle
  /\ localSettings \in Setups /\ options \in Options
  /\ config = BlankConfig /\ config0 = BlankConfig /\ cstage = "new"

\* new ParsoidConfig(localSettings, options)
ParsoidConfig ==
  /\ cstage = "new"
  /\ config' = construct(localSettings, options)
  /\ config0' = config'
  /\ cstage' = "constructed"
  /\ UNCHANGED << localSettings, options, confAside >>

\* parsoidConfig.setMwApi(prefix, apiConf) on the constructed object.
setMwApi ==
  /\ cstage = "constructed"
  /\ \E prefix \in Prefixes, host \in Hosts : config' = setMwApiOn(config, prefix, host)
  /\ UNCHANGED << config0, localSettings, options, cstage, confAside >>

\* parsoidConfig.removeMwApi(prefix) on the constructed object.
removeMwApi ==
  /\ cstage = "constructed"
  /\ \E prefix \in Prefixes : config' = removeMwApiOn(config, prefix)
  /\ UNCHANGED << config0, localSettings, options, cstage, confAside >>

ConfigNext == ParsoidConfig \/ setMwApi \/ removeMwApi

ConfigSpec == ConfigInit /\ [][ConfigNext]_<< vars, aside >>

Constructed == cstage = "constructed"
OwnProps == { config.own[i] : i \in DOMAIN config.own }

\* C18 (as claimed): once the constructor has returned the object is frozen,
\* the value of every own property that is not an ignored field is deep-frozen,
\* and no call of setMwApi or removeMwApi changes mwApiRegexp or any other
\* property: the object stays as the constructor returned it.
C18_ConfigImmutable ==
  Constructed =>
    /\ config.frozen
    /\ (OwnProps \ ignoreFields) \subseteq config.deepFrozen
    /\ config = config0

\* C19 (as claimed): a property that localSettings.setup has set has, in the
\* constructed object, the value setup gave it, whatever the options hold.
C19_SetupNotOverwritten ==
  (Constructed /\ localSettings.useSelser # "unset") =>
    config.useSelser = localSettings.useSelser

\* C20 (as claimed): in the constructed object timeouts.cpu is larger than
\* timeouts.request, whatever local settings and options supplied.
C20_CpuLargerThanRequest ==
  Constructed =>
    /\ config.timeouts.cpu.type = "number" /\ config.timeouts.request.type = "number"
    /\ config.timeouts.cpu.n > config.timeouts.request.n

\* ------------------------------------------------- resolver before parse
\* What the resolver's sources gave, after the flagged kind was cleared.
ResolvedSet ==
  IF extracted.given
    THEN Exp(invalidate(rin.mode, [ transclusions |-> extracted.transclusions,
                                    files |-> extracted.files ]))
    ELSE NoExp
Wt2htmlParsed == req.handler = "wt2html" /\ parseCalls # << >>

\* C22 (as claimed): every wt2html request that reaches the parser, with its
\* wikitext supplied or fetched, went through the reuse resolver first and the
\* parser was given the set the resolver returned.
C22_AsClaimed ==
  Wt2htmlParsed => ResolverRan /\ parseCalls[1].exp = ResolvedSet

\* C22 (amended): a wt2html request whose wikitext was fetched by revision id
\* went through the reuse resolver (and its cache lookup, when one was due)
\* before the parser, and the parser was given the set the resolver returned;
\* a request that supplied its wikitext was parsed once, without the resolver,
\* without a cache lookup and with no expansion set.
C22_ResolverBeforeParse ==
  Wt2htmlParsed =>
    /\ Len(parseCalls) = 1
    /\ ~req.wtGiven =>
         /\ ResolverRan /\ parseCalls[1].exp = ResolvedSet
         /\ cacheCalls # << >> =>
              \E i, j \in DOMAIN events : i < j /\ events[i] = "cache" /\ events[j] = "parse"
    /\ req.wtGiven =>
         ~ResolverRan /\ parseCalls[1].exp = NoExp /\ cacheCalls = << >> /\ ~extracted.given

\* C22 witness: a v2 request for a revision brought a payload with a
\* transclusion, and the parser was given it.
C22_Witness ==
  /\ Wt2htmlParsed /\ ~req.wtGiven /\ rin.path = "explicit"
  /\ parseCalls[1].exp.given /\ parseCalls[1].exp.transclusions # {}

\* ------------------------------------------------------ order of steps
\* The place of a step in the sequence of a request: source, rewrite,
\* preprocessing, expansion resolution, parse, serialize and diff, response.
StepRank(e) ==
  CASE e = "fetch" -> 1
    [] e = "tokenize" -> 2
    [] e = "preproc" -> 3
    [] e = "cache" -> 4
    [] e = "parse" -> 5
    [] e = "serialize" -> 6
    [] e \in { "respond", "redirect" } -> 7
    [] OTHER -> 0
Steps == { i \in DOMAIN events : StepRank(events[i]) > 0 }

\* C23 (as claimed): in a wt2html or round-trip request the steps begin in the
\* order source, rewrite, preprocessing, expansion resolution, parse,
\* serialize and diff, response, and while the request waits for one step to
\* settle no later step has begun.
C23_StepsInOrder ==
  req.handler \in { "wt2html" } \cup RtRoutes =>
    /\ \A i, j \in Steps : i < j => StepRank(events[i]) < StepRank(events[j])
    /\ pc \in ExternalOps => \A i \in Steps : StepRank(events[i]) <= StepRank(pc)

\* ------------------------------------------ several requests in one worker
\* Two requests are in flight in one process.  Each has its own res.local, its
\* own env and its own closure of wt2html; the process and its channel to the
\* cluster master are shared.  The requests name different pages and carry
\* different timeout ids.
Flying == { 1, 2 }

\* res.local of request i.
Local(i, oldid) ==
  [ timeoutId |-> "t" \o ToString(i), iwp |-> "enwiki", pageName |-> "Page" \o ToString(i),
    oldid |-> oldid ]

\* What the fetch of request i returns: the source and the revision of its page.
Src(i) == << "src", "Page" \o ToString(i) >>
Rev(i, oldid) == IF Truthy(oldid) THEN << oldid, "Page" \o ToString(i) >>
                                 ELSE << "latest", "Page" \o ToString(i) >>
\* The expansions request i may reuse: those of its own page.
OwnKeys(i) == { << k, "Page" \o ToString(i) >> : k \in Keys }

NotYet == << >>

PairInit ==
  /\ ChainIdle /\ SubstIdle /\ MiddleIdle /\ ConfigIdle /\ SuperIdle /\ RtIdle
  /\ proc \in [ isMaster : BOOLEAN, version : Versions, useSelser : { FALSE } ]
  /\ \E ids \in [ Flying -> OldIds ] :
       flight = [ i \in Flying |->
                  [ local |-> Local(i, ids[i]), at |-> "new", st |-> "pending",
                    src |-> NotYet, revid |-> NotYet, expansions |-> {} ] ]

\* Request i's record with some fields set.
Fly(i, at, st, src, revid, expansions) ==
  [ flight EXCEPT ![i] = [ local |-> flight[i].local, at |-> at, st |-> st, src |-> src,
                           revid |-> revid, expansions |-> expansions ] ]

\* wt2html is called for request i (lines 303-328, 483-509): the fetch is begun
\* and cpuTimeout sends the start message.
Call(i) ==
  /\ flight[i].at = "new"
  /\ chan' = cpuTimeoutStart(chan, flight[i].local)
  /\ flight' = Fly(i, "fetch", "pending", NotYet, NotYet, {})
  /\ UNCHANGED << proc, pairAside >>

\* The fetch of request i settles.  With an oldid, parsePageWithOldid (lines
\* 392-415) calls parse with the expansions the request may reuse; without,
\* redirectToOldid (lines 417-450) answers with a redirect to the fetched revision.
Fetched(i) ==
  /\ flight[i].at = "fetch"
  /\ LET l == flight[i].local
     IN IF Truthy(l.oldid)
          THEN \E e \in SUBSET OwnKeys(i) :
                 flight' = Fly(i, "parse", "pending", Src(i), Rev(i, l.oldid), e)
          ELSE flight' = Fly(i, "settled", "fulfilled", Src(i), Rev(i, l.oldid), {})
  /\ UNCHANGED << proc, chan, pairAside >>

\* The fetch or the parse of request i fails, or its parse ends.
Parsed(i) ==
  /\ flight[i].at \in { "fetch", "parse" }
  /\ \E st \in { "fulfilled", "rejected" } :
       /\ st = "fulfilled" => flight[i].at = "parse"
       /\ flight' = [ flight EXCEPT ![i].at = "settled", ![i].st = st ]
  /\ UNCHANGED << proc, chan, pairAside >>

\* The timer of request i, armed by .timeout(REQ_TIMEOUT) in the branches with an
\* oldid (lines 411-413), fires first.
Expired(i) ==
  /\ flight[i].at \in { "fetch", "parse" }
  /\ Truthy(flight[i].local.oldid)
  /\ flight' = [ flight EXCEPT ![i].at = "settled", ![i].st = "rejected" ]
  /\ UNCHANGED << proc, chan, pairAside >>

\* The reactions cpuTimeout registered on the promise of request i (lines 85-88).
Reported(i) ==
  /\ flight[i].at = "settled"
  /\ chan' = cpuTimeoutDone(chan, flight[i].local)
  /\ flight' = [ flight EXCEPT ![i].at = "done" ]
  /\ UNCHANGED << proc, pairAside >>

PairNext ==
  \/ \E i \in Flying : Call(i)
  \/ \E i \in Flying : Fetched(i)
  \/ \E i \in Flying : Parsed(i)
  \/ \E i \in Flying : Expired(i)
  \/ \E i \in Flying : Reported(i)

PairSpec == PairInit /\ [][PairNext]_<< vars, aside >>

\* The messages of request i on the channel, in order.
Mine(i) == SelectSeq(chan, LAMBDA m : m.timeoutId = flight[i].local.timeoutId)

\* What the channel must hold of request i at each point of its life.
Heartbeat(i) ==
  IF HeartbeatOff THEN << >>
  ELSE CASE flight[i].at = "new" -> << >>
         [] flight[i].at = "done" ->
              << StartMsg(flight[i].local), makeDone(flight[i].local.timeoutId) >>
         [] OTHER -> << StartMsg(flight[i].local) >>

\* The working state of request i comes from its own request.
OwnState(i) ==
  LET f == flight[i]
  IN /\ f.src \in { NotYet, Src(i) }
     /\ f.revid \in { NotYet, Rev(i, f.local.oldid) }
     /\ f.expansions \subseteq OwnKeys(i)

IsPrefix(s, t) == Len(s) <= Len(t) /\ s = SubSeq(t, 1, Len(s))

C24_State ==
  flight # << >> =>
    /\ \A i \in Flying : Mine(i) = Heartbeat(i) /\ OwnState(i)
    /\ \A k \in DOMAIN chan : \E i \in Flying : chan[k].timeoutId = flight[i].local.timeoutId

C24_Step ==
  /\ IsPrefix(chan, chan')
  /\ flight # << >> =>
       \A i, j \in Flying : i # j /\ flight'[i] # flight[i] => flight'[j] = flight[j]

\* C24: with several requests in flight in one worker, under distinct timeout
\* ids, the channel holds of each request its own start message and, once its own
\* pipeline has settled and its reactions have run, its own done message, wherever
\* the other requests stand; the channel only ever gains messages; and the source,
\* revision id and expansions of a request come from that request alone, a step of
\* one request leaving the others' untouched.
C24_RequestsIndependent == []C24_State /\ [][C24_Step]_<< chan, flight >>

\* Request 1 has sent its done message while request 2, started before it settled,
\* is still fetching.
C24_Witness ==
  /\ flight # << >>
  /\ flight[1].at = "done" /\ flight[2].at = "fetch"
  /\ Len(chan) = 3
  /\ chan[2] = StartMsg(flight[2].local)
  /\ chan[3] = makeDone("t1")
  /\ flight[1].expansions # {}

\* --------------------------------------- a request under the supervisor
\* Time is followed at the instants that matter: the call of the handler, the
\* soft deadline REQ_TIMEOUT and the hard deadline CPU_TIMEOUT after it.
\* Callbacks that are ready run without time passing, as long as the event loop
\* runs; external operations settle at any time.

\* The callbacks of the request the event loop can run at once.
Immediate ==
  \/ wt2html \/ html2wt \/ roundtrip \/ postRtForm
  \/ Tick \/ Adopt \/ SuccessCont \/ cpuSettle \/ catchTimeoutResp \/ postRtFormCatch

\* A start message waits for its done message.
Outstanding == \E i \in DOMAIN chan : ~chan[i].done /\ \A j \in DOMAIN chan : ~chan[j].done

\* The event loop runs a step of the request.  The timer of .timeout(REQ_TIMEOUT)
\* does not fire before REQ_TIMEOUT has passed.
Run ==
  /\ ~blocked /\ ~killed
  /\ Next
  /\ timer = "armed" /\ timer' = "fired" => clock >= REQ_TIMEOUT

\* Time passes to the next deadline: nothing of the request is ready to run, or
\* the event loop is blocked.
Elapse ==
  /\ ~killed /\ pc # "new" /\ clock < CPU_TIMEOUT
  /\ ~blocked =>
       /\ ~ENABLED Immediate
       /\ ~(timer = "armed" /\ tp = Pending /\ clock >= REQ_TIMEOUT)
  /\ clock' = IF clock < REQ_TIMEOUT THEN REQ_TIMEOUT ELSE CPU_TIMEOUT
  /\ UNCHANGED << blocked, killed, superAside >>

\* A callback of the request starts a computation that does not return to the
\* event loop (lines 29-36).
Block ==
  /\ ~blocked /\ ~killed /\ pc # "new" /\ ~Settled(fin)
  /\ blocked' = TRUE
  /\ UNCHANGED << clock, killed, superAside >>

\* The supervisor: no done message has followed the start message within the
\* timeout the start message named.
Kill ==
  /\ ~killed /\ Outstanding
  /\ clock >= chan[1].timeout
  /\ killed' = TRUE
  /\ UNCHANGED << clock, blocked, superAside >>

TimedNext == Run \/ Elapse \/ Block \/ Kill

TimedSpec == Init /\ [][TimedNext]_<< vars, aside >>

Posted == v2req.method = "POST" /\ local.v2 /\ stage \notin { "arrived", "next" }
\* The body gives wikitext: a string, or an object with a body.
HasMarkup == v2req.wikitext \in { "string", "empty", "object" }
HasTitle == Truthy(v2req.title) \/ Truthy(v2req.origTitle)
HasHtml == v2req.html # "undefined"
Refused(msg) == sent = << [ msg |-> msg, code |-> 400 ] >> /\ called = ""

\* C26: a v2 POST for a rendering format with neither wikitext nor a title is
\* answered 400 "No title or wikitext was provided." and one for the wt format
\* without an html field 400 "No html was supplied.", no handler being called;
\* every other v2 POST has exactly the handler of its direction called, and no
\* error sent.
C26_RequiredFieldOr400 ==
  Posted =>
    IF local.format \in wt2htmlFormats
      THEN IF ~HasMarkup /\ ~HasTitle
             THEN Refused("No title or wikitext was provided.")
             ELSE called = "wt2html" /\ sent = << >>
      ELSE IF ~HasHtml
             THEN Refused("No html was supplied.")
             ELSE called = "html2wt" /\ sent = << >>

\* ------------------------------------------- the round-trip routes, on the document
\* Documents with a body of at most MaxDoc items: text, line feed, carriage return.
MaxDoc == 2
Sentinel == "<!--rtSelserEditTestComment-->"
BodyItems == { "x", "\n", "\r" }
Heads == { << >>, << "meta" >>, << "meta", "base", "link" >>, << "base", "meta", "base" >> }
Docs == [ head : Heads, body : UNION { [1..n -> BodyItems] : n \in 0..MaxDoc },
          passes : { 0 } ]
\* What DU.serializeDOM may resolve with.
Outs == UNION { [1..n -> { "w", "\n", Sentinel }] : n \in 0..(MaxDoc + 1) }

\* DU.parseHTML(html), domino.createDocument(html) of a serialized document.
parseHTML(d) == [ d EXCEPT !.passes = @ + 1 ]

RECURSIVE stripNewlines_LFOnly(_), stripNewlines(_)

\* Mutant of stripNewlines: line feeds only.
stripNewlines_LFOnly(s) ==
  IF s = << >> THEN << >>
  ELSE (IF Head(s) = "\n" THEN << >> ELSE << Head(s) >>) \o stripNewlines_LFOnly(Tail(s))

\* .replace(/[\r\n]/g, '') (line 699)
stripNewlines(s) ==
  IF s = << >> THEN << >>
  ELSE (IF Head(s) \in { "\r", "\n" } THEN << >> ELSE << Head(s) >>) \o stripNewlines(Tail(s))

\* What each route gives to roundTripDiff (lines 669, 697-701, 729-733).
rtDocument(route, d) ==
  CASE route = "roundtripTestingNL" -> parseHTML([ d EXCEPT !.body = stripNewlines(@) ])
    [] route = "roundtripSelser" -> [ parseHTML(d) EXCEPT !.body = Append(@, Sentinel) ]
    [] OTHER -> d
rtUseSelser(route) == route = "roundtripSelser"

\* out.replace(/<!--rtSelserEditTestComment-->\n*$/, '') (line 111)
stripSentinel(o) ==
  LET at == { i \in DOMAIN o : o[i] = Sentinel /\ \A j \in (i + 1)..Len(o) : o[j] = "\n" }
  IN IF at = {} THEN o ELSE SubSeq(o, 1, (CHOOSE i \in at : \A k \in at : i <= k) - 1)

\* The first base node of the head, serialized (lines 114-121).
RECURSIVE headNodes(_)
headNodes(h) ==
  IF h = << >> THEN << >>
  ELSE IF Head(h) = "base" THEN << "base" >> ELSE headNodes(Tail(h))

RtInit ==
  /\ RequestIdle /\ SubstIdle /\ MiddleIdle /\ ConfigIdle /\ PairIdle /\ SuperIdle
  /\ rtRoute \in RtRoutes /\ parsed \in Docs
  /\ serialized = NoCall /\ out = << >> /\ report = NoReport /\ rtStage = "parsed"

\* The callback behind parse, up to the call of DU.serializeDOM (lines 105-109).
rtCallback ==
  /\ rtStage = "parsed"
  /\ serialized' = [ doc |-> parseHTML(rtDocument(rtRoute, parsed)),
                     useSelser |-> rtUseSelser(rtRoute), made |-> TRUE ]
  /\ rtStage' = "serializing"
  /\ UNCHANGED << rtRoute, parsed, out, report, rtAside >>

\* DU.serializeDOM resolves and the report is made (lines 109-139).  The escaping
\* and the diff are applications of functions kept outside this file.
rtSerialized ==
  /\ rtStage = "serializing"
  /\ \E o \in Outs :
       /\ out' = o
       /\ report' = [ made |-> TRUE,
                      headers |-> headNodes(serialized.doc.head),
                      bodyNodes |-> serialized.doc.body,
                      htmlSpeChars |-> << "htmlSpecialChars", stripSentinel(o) >>,
                      patch |-> << "diffLines", "env.page.src", stripSentinel(o) >>,
                      reqUrl |-> "req.url" ]
  /\ rtStage' = "reported"
  /\ UNCHANGED << rtRoute, parsed, serialized, rtAside >>

RtNext == rtCallback \/ rtSerialized

RtSpec == RtInit /\ [][RtNext]_<< vars, aside >>

\* The produced wikitext consists of front, the sentinel, and line feeds only.
EndsInSentinel(o, front) ==
  \E n \in 0..Len(o) :
    /\ Len(o) = Len(front) + 1 + n
    /\ SubSeq(o, 1, Len(front)) = front
    /\ o[Len(front) + 1] = Sentinel
    /\ \A j \in (Len(front) + 2)..Len(o) : o[j] = "\n"
Fronts(o) == { SubSeq(o, 1, n) : n \in 0..Len(o) }
\* What the report is made of: the produced wikitext less a trailing sentinel.
Compared ==
  IF \E front \in Fronts(out) : EndsInSentinel(out, front)
    THEN CHOOSE front \in Fronts(out) : EndsInSentinel(out, front)
    ELSE out

\* C27: the plain route gives the parsed document as it is to roundTripDiff, with
\* selective serialization off; the newline route gives it without any CR or LF
\* character, the rest in order, selective serialization off; the selser route
\* gives it re-serialized with the sentinel comment appended to its body,
\* selective serialization on; nothing else differs.  In all three a sentinel
\* comment trailing the produced wikitext is taken off before escaping and
\* diffing, and the report holds the first base node of the head, the body nodes,
\* the escaped wikitext, the diff against the page source, and the request URL.
C27_RoutesDifferInPreparation ==
  /\ serialized.made =>
       LET d == serialized.doc
       IN /\ d.head = parsed.head
          /\ rtRoute = "roundtripTesting" =>
               d.body = parsed.body /\ ~serialized.useSelser /\ d.passes = 1
          /\ rtRoute = "roundtripTestingNL" =>
               /\ \A i \in DOMAIN d.body : d.body[i] \notin { "\r", "\n" }
               /\ d.body = SelectSeq(parsed.body, LAMBDA c : c = "x")
               /\ ~serialized.useSelser /\ d.passes = 2
          /\ rtRoute = "roundtripSelser" =>
               d.body = parsed.body \o << Sentinel >> /\ serialized.useSelser /\ d.passes = 2
  /\ report.made =>
       /\ DOMAIN report = { "made", "headers", "bodyNodes", "htmlSpeChars", "patch", "reqUrl" }
       /\ report.headers = (IF \E i \in DOMAIN parsed.head : parsed.head[i] = "base"
                              THEN << "base" >> ELSE << >>)
       /\ report.bodyNodes = serialized.doc.body
       /\ report.htmlSpeChars = << "htmlSpecialChars", Compared >>
       /\ report.patch = << "diffLines", "env.page.src", Compared >>
       /\ report.reqUrl = "req.url"

\* The newline route has taken a CR and an LF out of the document, and the
\* produced wikitext ended in the sentinel and a line feed.
C27_Witness ==
  /\ rtRoute = "roundtripTestingNL" /\ parsed.body = << "\r", "\n" >>
  /\ report.made /\ report.bodyNodes = << >>
  /\ out = << "w", Sentinel, "\n" >>
  /\ report.htmlSpeChars = << "htmlSpecialChars", << "w" >> >>

\* ------------------------------------------------- sanitized configuration
\* What the object under construction holds for timeouts and retries when
\* _sanitizeIt is called: the defaults, with what setup and the options assigned.
Supplied ==
  LET t0 == IF localSettings.request # Unset
              THEN [ DefaultTimeouts EXCEPT !.request = localSettings.request ]
              ELSE DefaultTimeouts
  IN [ type |-> "object",
       timeouts |-> IF options.given /\ options.timeouts.type # "unset"
                      THEN options.timeouts ELSE t0,
       retries |-> IF options.given /\ options.retries.type # "unset"
                     THEN options.retries ELSE DefaultRetries ]

\* v is a value of the type of dflt, not null, and so are its properties.
RECURSIVE WellTyped(_, _)
WellTyped(v, dflt) ==
  /\ v.type = dflt.type /\ v.type \notin { "null", "undefined", "unset" }
  /\ "n" \notin DOMAIN dflt => "n" \notin DOMAIN v
  /\ "n" \notin DOMAIN dflt => \A key \in DOMAIN dflt \ { "type" } : WellTyped(v[key], dflt[key])

\* s is missing, null or of another type than dflt.
Unfit(s, dflt) ==
  s.type \in { "null", "undefined", "unset" } \/ (s.type = "object") # (dflt.type = "object")
     \/ (s.type # "object" /\ s.type # dflt.type)

\* v is s where s fits, and dflt where it does not, property by property.
RECURSIVE KeptOrDefault(_, _, _)
KeptOrDefault(v, s, dflt) ==
  IF Unfit(s, dflt) THEN v = dflt
  ELSE IF dflt.type = "object"
    THEN \A key \in DOMAIN dflt \ { "type" } : KeptOrDefault(v[key], s[key], dflt[key])
    ELSE v = s

C29_ResolverNeverFails ==
  ResolverRan =>
    /\ pc = "cache" \/ parseCalls # << >>
    /\ pre.st = "rejected" => pre.v.cls \notin { "TypeError", "SyntaxError" }


\* ------------------------------------------------------- one response
\* C30: whatever the order in which the pipeline ends, the soft deadline expires
\* and a failure occurs, at most one response is sent for the request: the
\* success response (or the redirect), or one error response of the fatal log
\* backend, which is sent only for a logged failure and not after another response.
C30_AtMostOneResponse ==
  /\ Len(resp) <= 1
  /\ \A i \in DOMAIN resp : resp[i].kind = "error" => log # << >>
  /\ Len(log) <= 1

\* The success response was sent, the continuation then threw, the failure was
\* logged, and the backend sent nothing more.
C30_Witness ==
  /\ Len(resp) = 1 /\ resp[1].kind # "error"
  /\ post.st = "rejected" /\ Settled(fin) /\ Len(log) = 1

\* ------------------------------------------- the maps of the MediaWiki APIs
\* The host of the API URI of a registered prefix.
HostOf(p) == config.mwApiMap[p]
Registered == DOMAIN config.mwApiMap
Reversed == DOMAIN config.reverseMwApiMap

\* C31 (as claimed): after any calls of setMwApi and removeMwApi the two maps
\* agree: every prefix in mwApiMap is the one reverseMwApiMap holds for the
\* host of its URI, and every host in reverseMwApiMap maps to a prefix that
\* is in mwApiMap with that host.
C31_MapsConsistent ==
  Constructed =>
    /\ \A p \in Registered :
         HostOf(p) \in Reversed /\ config.reverseMwApiMap[HostOf(p)] = p
    /\ \A h \in Reversed :
         config.reverseMwApiMap[h] \in Registered /\ HostOf(config.reverseMwApiMap[h]) = h

\* ----------------------------- specification of the calls on the API maps
\* A prefix with a character that the regular expression reads as a wildcard.
dxwiki == << "d", ".", "w", "i", "k", "i" >>
Names == Prefixes \cup { dxwiki }

\* new ParsoidConfig(null, null), and then the calls by their older names.
ApiInit ==
  /\ RequestIdle /\ SubstIdle /\ MiddleIdle /\ PairIdle /\ SuperIdle /\ RtIdle
  /\ ConfigIdle

\* parsoidConfig.setInterwiki(prefix, apiConf): the alias of setMwApi.
setInterwiki ==
  /\ cstage = "constructed"
  /\ \E prefix \in Names, host \in Hosts : config' = setMwApiOn(config, prefix, host)
  /\ UNCHANGED << config0, localSettings, options, cstage, confAside >>

\* parsoidConfig.removeInterwiki(prefix): the alias of removeMwApi.
removeInterwiki ==
  /\ cstage = "constructed"
  /\ \E prefix \in Names : config' = removeMwApiOn(config, prefix)
  /\ UNCHANGED << config0, localSettings, options, cstage, confAside >>

ApiNext == ParsoidConfig \/ setInterwiki \/ removeInterwiki

ApiSpec == ApiInit /\ [][ApiNext]_<< vars, aside >>

\* The prefixes of q, in that order, with '|' between them.
RECURSIVE joined(_)
joined(q) ==
  IF q = << >> THEN << >>
  ELSE IF Len(q) = 1 THEN q[1]
  ELSE q[1] \o << "|" >> \o joined(Tail(q))

\* The ways of listing every element of S once.
Listings(S) ==
  { q \in [ 1..Cardinality(S) -> S ] : \A i, j \in DOMAIN q : q[i] = q[j] => i = j }

\* C32 (as claimed): after any calls of setMwApi and removeMwApi, mwApiRegexp
\* is the '|'-separated list of exactly the prefixes that are in mwApiMap, each
\* once, with no leading, trailing or doubled '|'; and removing a prefix that
\* is not registered changes nothing.
C32_RegexpListsPrefixes ==
  Constructed =>
    /\ \E q \in Listings(Registered) : config.mwApiRegexp = joined(q)
    /\ \A p \in Names \ Registered : removeMwApiOn(config, p) = config

====
